---- MODULE Spec2Model ----
(***************************************************************************)
(* Collection-and-relay engine of the multi-exchange websocket collector.  *)
(*                                                                         *)
(*   collector/runner.rs   run_ws_loop, handle_parsed  (Runner)            *)
(*   master_sender.rs      MasterSender, MasterPool    (Sender, Pool)      *)
(*                                                                         *)
(*   exchanges/*.rs        adapters (subscribe requests, parse_message)    *)
(*                                                                         *)
(* The specifications share the variables:                                 *)
(*   SpecRunner     the connection lifecycle of the Runner tasks, with the *)
(*                  Pool in demo mode (no Sender exists);                  *)
(*   SpecSender     one MasterSender (reconnect loop, writer, reader) fed  *)
(*                  by Runners that are Streaming and call handle_parsed;  *)
(*   SpecHeartbeat  SpecSender with the writer's scheduling made fair;     *)
(*   SpecPool       MasterPool::send over a set of Senders;                *)
(*   SpecPlanner    the chunking of pairs into connections;                *)
(*   SpecAdapter    parse_message and build_subscribe_message of the       *)
(*                  buffering adapters, shared by several connections;     *)
(*   SpecFrames     the frames a Streaming Runner reads;                   *)
(*   SpecVenue      the KuCoin endpoint fetch and per-venue subscribing.   *)
(***************************************************************************)
EXTENDS Integers, Sequences, FiniteSets, TLC

\* ------------------------------------------------------------ bounds
\* Number of Runner tasks (streams).
NumRunners == 2
\* Number of Runners that feed the Sender in SpecSender (the others stay idle).
NumProducers == 1
\* Number of symbols on each stream.
NumSymbols == 2
\* Width of the usize gauge in the model (the code's usize is 64 bits wide).
GaugeWidth == 3
\* Market messages parsed over a run (caps trades_received).
MaxMsgs == 3
\* Parse errors over a run (caps parse_errors).
MaxParseErrors == 1
\* Capacity of one send queue in the model (mpsc::channel(10_000) in the code).
QueueCap == 2
\* Queue generations a Sender creates over a run.
MaxGen == 2
\* Heartbeat intervals that elapse on one link (after the immediate first tick).
MaxTicks == 1
\* Largest cfg.master.connections of a Pool.
MaxConnections == 2
\* Largest number of configured symbols of one channel of a venue.
MaxPairs == 9
\* Largest cfg.chunking.trades_per_connection.
MaxChunk == 5
\* Connections of one venue that share its adapter instance.
NumConns == 2
\* parse_message calls over a run.
MaxCalls == 3
\* Largest number of trades in one frame of a batching venue.
MaxBatch == 2
\* Number of different ping payloads a venue sends.
MaxPayload == 2

\* ------------------------------------------------- program constants
\* sleep(Duration::from_secs(5)) at the bottom of run_ws_loop.
ReconnectDelaySecs == 5
\* for _ in 0..3 in MasterPool::send.
PoolAttempts == 3
\* sleep(Duration::from_secs(30)) at the bottom of the reconnect loop.
BackoffSecs == 30
\* sleep(Duration::from_secs(10)) after a failed fetch of the KuCoin endpoint.
KucoinRetrySecs == 10

Runners == 1..NumRunners
Producers == 1..NumProducers
UsizeMod == 2 ^ GaugeWidth

\* Configured symbols (config.pairs.trades), in configured order.
SymbolList == <<"BTC/USD", "ETH/USD", "XRP/USD", "LTC/USD", "ADA/USD", "SOL/USD",
                "DOT/USD", "FLR/USD", "SGB/USD", "XLM/USD", "ALGO/USD", "DOGE/USD">>
\* adapter.name() of the adapters the Runners of a mixed deployment were
\* spawned with.
VenueList == <<"binance", "bitfinex", "okx", "bitstamp">>
Min(a, b) == IF a < b THEN a ELSE b

\* slice::chunks(k), k >= 1: consecutive slices of k elements, the last one
\* with what is left.
RECURSIVE Chunks(_, _)
Chunks(list, k) ==
  IF list = <<>> THEN <<>>
  ELSE <<SubSeq(list, 1, Min(k, Len(list)))>>
         \o Chunks(SubSeq(list, Min(k, Len(list)) + 1, Len(list)), k)

\* What tokio::spawn(run_ws_loop(adapter, cfg, channel, pairs, master)) starts.
RunnerSpec(ch, ps) == [channel |-> ch, pairs |-> ps]

\* The symbol subset a Runner was spawned with (chunk_pairs): the Runners of
\* the model carry the consecutive chunks of NumSymbols configured symbols.
PairsOfNext(r) ==
  Chunks(SubSeq(SymbolList, 1, (NumRunners + 1) * NumSymbols), NumSymbols)[r + 1]
Pairs(r) == Chunks(SubSeq(SymbolList, 1, NumRunners * NumSymbols), NumSymbols)[r]

VARIABLES
  \* ---- Runner (run_ws_loop), one entry per Runner task
  rpc,            \* position: "connect", "subscribe", "stream", "delay", "returned"
  subIdx,         \* subscribe requests sent successfully in this session
  sessionSubs,    \* the subscribe requests written in this session, in order
  rsleep,         \* seconds left of the current sleep
  hp,             \* position inside handle_parsed / MasterPool::send
  curMsg,         \* id of the message handle_parsed is sending
  attempt,        \* MasterPool::send loop counter
  sendTx,         \* the queue generation MasterSender::send holds under the lock
  \* ---- METRICS (process-wide atomics)
  ws_connections_active,
  trades_received,
  trades_forwarded,
  parse_errors,
  send_errors,
  dropped_messages,
  \* ---- MasterPool
  demo,
  \* ---- MasterSender
  gen,            \* generation of the newest channel (0: the placeholder)
  handle,         \* generation of the mpsc::Sender stored in `queue`
  rxOpen,         \* the Receiver of generation `gen` is alive
  chanq,          \* buffered messages of generation `gen`
  lock,           \* holder of the `queue` mutex: <<"free", 0>>, <<"loop", 0>>, <<"send", r>>
  connected,      \* the OnceCell `connected` is set
  wpc,            \* position of the reconnect loop / writer
  rdr,            \* reader task of the current link: "none", "reading", "ended"
  notified,       \* the writer's pending Notified future has been woken
  tickDue,        \* ping_interval has a tick ready
  ticks,          \* heartbeat intervals elapsed on the current link
  curWrite,       \* message the writer dequeued and is writing
  wire,           \* frames written on the current link, in order
  transmitted,    \* ids of the data messages written on any link
  droppedIds,     \* ids of the messages try_send refused with Full
  stranded,       \* ids of the messages still queued when their link terminated
  bsleep,         \* seconds left of the Sender's backoff sleep
  \* ---- MasterPool with several Senders (SpecPool)
  count,          \* cfg.master.connections
  senders,        \* senders.len()
  sopen,          \* per Sender: the Receiver of its current queue is alive
  sq,             \* per Sender: ids buffered in its current queue
  netOpened,      \* some Sender has called connect_async
  ppc,            \* position inside MasterPool::send: "idle", "pick", "sleep", "panicked"
  pmsg,           \* id of the message MasterPool::send is delivering
  pattempt,       \* loop counter of `for _ in 0..3`
  picks,          \* the Senders chosen for the current message, in order
  presult,        \* outcome of the last completed MasterPool::send: "none", "ok", "err"
  sink,           \* ids printed to stdout in demo mode, in order
  \* ---- Fan-out Planner (SpecPlanner)
  pairsTrades,    \* cfg.pairs.trades
  pairsBooks,     \* cfg.pairs.orderbooks
  chunk_size,     \* cfg.chunking.trades_per_connection
  plpc,           \* position inside run_exchange
  rest,           \* symbols the running `for` has not yet visited
  spawned,        \* the Runners spawned so far: [channel, pairs], in order
  \* ---- one shared adapter instance and the connections that call it (SpecAdapter)
  akind,          \* the adapter: "kraken", "bitfinex", "gateio", "binance"
  trade_buffer,   \* Mutex<VecDeque<MarketMessage>>
  chan_map,       \* Mutex<HashMap<chanId, symbol>>: its entries [chan, symbol]
  apc,            \* per connection: position inside parse_message
  aframe,         \* per connection: the frame its parse_message was called with
  acked,          \* per connection: the chanId of the `subscribed` event the venue sent (0: none)
  calls,          \* parse_message calls made so far
  decoded,        \* the trades pushed into trade_buffer, in push order
  emitted,        \* the trades returned as Market, in return order
  lastResult,     \* per connection: frame and result of its last completed call
  subreq,         \* per connection: the request build_subscribe_message returned
  \* ---- the venue of the Runners, the KuCoin endpoint cell, the last ping
  names,          \* per Runner: adapter.name()
  KUCOIN_WS_URL,  \* the OnceCell: "" while it is empty, else the cached URL
  kucoin_init,    \* the Runner that holds the cell's init permit (0: nobody)
  kucoin_fetches, \* fetches of the endpoint that succeeded
  lastPing,       \* the last ping frame a Runner received and the pong it wrote
  lastFrame       \* the last text or binary frame a Runner read and what it did with it

runnerVars == <<rpc, subIdx, sessionSubs, rsleep, hp, curMsg, attempt, sendTx>>
metricVars == <<ws_connections_active, trades_received, trades_forwarded,
                parse_errors, send_errors, dropped_messages>>
senderVars == <<gen, handle, rxOpen, chanq, lock, connected, wpc, rdr, notified,
                tickDue, ticks, curWrite, wire, transmitted, droppedIds, stranded, bsleep>>
poolVars == <<count, senders, sopen, sq, netOpened, ppc, pmsg, pattempt, picks,
              presult, sink>>
plannerVars == <<pairsTrades, pairsBooks, chunk_size, plpc, rest, spawned>>
adapterVars == <<akind, trade_buffer, chan_map, apc, aframe, acked, calls, decoded,
                 emitted, lastResult, subreq>>
venueVars == <<names, KUCOIN_WS_URL, kucoin_init, kucoin_fetches, lastPing, lastFrame>>
vars == <<runnerVars, metricVars, demo, poolVars, plannerVars, adapterVars, venueVars,
          senderVars>>

\* adapter.name() of the adapter Runner r was spawned with.
Venue(r) == names[r]
\* match adapter.name() { "bitfinex" | "bitstamp" => per symbol, _ => batched }
PerSymbol(r) == Venue(r) \in {"bitfinex", "bitstamp"}

\* build_subscribe_message(channel, pairs, cfg) of the adapter called `name`:
\* the symbols its request names, each written as the configured symbol it
\* was converted from (util::symbol_to_exchange), in the order of the request.
\* The adapters that read pairs[0] only name the first symbol; json!({}) names none.
BuildSubscribeMessage(name, ch, syms) ==
  CASE name \in {"binance", "binanceus", "bybit", "coinbase", "kraken"} -> syms
    [] name = "gateio" -> IF ch = "Trades" THEN syms ELSE <<syms[1]>>
    [] name = "okx" -> IF ch = "Trades" THEN syms ELSE <<>>
    [] name = "bitrue" -> IF syms = <<>> \/ ch # "Trades" THEN <<>> ELSE <<syms[1]>>
    [] OTHER -> IF ch = "Trades" THEN <<syms[1]>> ELSE <<>>

\* The subscribe request the Runner sends for a symbol slice: the slice it
\* passes to build_subscribe_message and the symbols the request names.
SubscribeRequest(r, syms) ==
  [venue |-> Venue(r), channel |-> "Trades", symbols |-> syms,
   named |-> BuildSubscribeMessage(Venue(r), "Trades", syms)]
\* Number of subscribe requests of a complete session.
NumRequests(r) == IF PerSymbol(r) THEN Len(Pairs(r)) ELSE 1

\* A ping frame Runner r received with payload p, and the payload of the pong
\* the Runner passed to write.send for it.
Ping(r, p, q) == [runner |-> r, ping |-> p, pong |-> q]
NoPing == Ping(0, 0, 0)

\* What the read loop did with a text or binary frame: how often it called
\* parse_message, the result it passed to handle_parsed, and whether it wrote
\* a JSON pong.
Handling(n, res, pong) == [parses |-> n, result |-> res, pong |-> pong]
\* A text or binary frame Runner r read: `gz` tells whether a binary frame
\* gunzips to a string, `content` what the text is; `seq` alternates from
\* frame to frame.
Read(r, t, gz, c, o, q) ==
  [runner |-> r, type |-> t, gz |-> gz, content |-> c, outcome |-> o, seq |-> q]
NoRead == Read(0, "none", FALSE, "none", Handling(0, "none", FALSE), 0)

\* A queued message: its id and the generation it was enqueued on.
Msg(i, g) == [id |-> i, gen |-> g]
NoMsg == Msg(0, 0)

\* Top of the loop of run_ws_loop: a KuCoin Runner resolves its endpoint
\* first, every other Runner calls connect_async with adapter.ws_url().
LoopTop(r) == IF Venue(r) = "kucoin" THEN "resolve" ELSE "connect"

\* ------------------------------------------------------------ METRICS
\* AtomicUsize::fetch_add / fetch_sub wrap around.
FetchAdd(x) == (x + 1) % UsizeMod
FetchSub(x) == (x + UsizeMod - 1) % UsizeMod

\* ===================================================================
\* Runner: run_ws_loop
\* ===================================================================

\* Bottom of the loop: ws_reconnects += 1; sleep(5 s).
EnterReconnectDelayNoSleep(r) ==
  /\ rpc' = [rpc EXCEPT ![r] = "connect"]
  /\ rsleep' = [rsleep EXCEPT ![r] = 0]
EnterReconnectDelayAll(r) ==
  /\ rpc' = [o \in Runners |-> "delay"]
  /\ rsleep' = [o \in Runners |-> ReconnectDelaySecs]
EnterReconnectDelay(r) ==
  /\ rpc' = [rpc EXCEPT ![r] = "delay"]
  /\ rsleep' = [rsleep EXCEPT ![r] = ReconnectDelaySecs]

\* connect_async succeeds: the gauge is raised and the session starts.
ConnectOk(r) ==
  /\ rpc[r] = "connect"
  /\ rpc' = [rpc EXCEPT ![r] = "subscribe"]
  /\ ws_connections_active' = FetchAdd(ws_connections_active)
  /\ subIdx' = [subIdx EXCEPT ![r] = 0]
  /\ sessionSubs' = [sessionSubs EXCEPT ![r] = <<>>]
  /\ UNCHANGED <<rsleep, hp, curMsg, attempt, sendTx, trades_received,
                 trades_forwarded, parse_errors, send_errors, dropped_messages,
                 demo, poolVars, plannerVars, adapterVars, venueVars, senderVars>>

\* connect_async fails: Err arm, then the bottom of the loop.
ConnectFail(r) ==
  /\ rpc[r] = "connect"
  /\ EnterReconnectDelay(r)
  /\ UNCHANGED <<subIdx, sessionSubs, hp, curMsg, attempt, sendTx, metricVars,
                 demo, poolVars, plannerVars, adapterVars, venueVars, senderVars>>

\* Batched policy, the one subscribe request is written.
SubscribeBatchOk(r) ==
  /\ rpc[r] = "subscribe"
  /\ ~PerSymbol(r)
  /\ sessionSubs' = [sessionSubs EXCEPT ![r] = <<SubscribeRequest(r, Pairs(r))>>]
  /\ subIdx' = [subIdx EXCEPT ![r] = 1]
  /\ rpc' = [rpc EXCEPT ![r] = "stream"]
  /\ UNCHANGED <<rsleep, hp, curMsg, attempt, sendTx, metricVars, demo, poolVars, plannerVars, adapterVars, venueVars, senderVars>>

\* Batched policy, the write fails: the gauge is lowered and `break` leaves the
\* enclosing `loop` (the match arms are no loops), so run_ws_loop returns.
SubscribeBatchFail(r) ==
  /\ rpc[r] = "subscribe"
  /\ ~PerSymbol(r)
  /\ ws_connections_active' = FetchSub(ws_connections_active)
  /\ rpc' = [rpc EXCEPT ![r] = "returned"]
  /\ UNCHANGED <<subIdx, sessionSubs, rsleep, hp, curMsg, attempt, sendTx,
                 trades_received, trades_forwarded, parse_errors, send_errors,
                 dropped_messages, demo, poolVars, plannerVars, adapterVars, venueVars, senderVars>>

\* Per-symbol policy, the request of the next symbol is written.
SubscribeSymbolOk(r) ==
  /\ rpc[r] = "subscribe"
  /\ PerSymbol(r)
  /\ subIdx[r] < Len(Pairs(r))
  /\ sessionSubs' = [sessionSubs EXCEPT
                       ![r] = Append(@, SubscribeRequest(r, <<Pairs(r)[subIdx[r] + 1]>>))]
  /\ subIdx' = [subIdx EXCEPT ![r] = @ + 1]
  /\ rpc' = [rpc EXCEPT ![r] = IF subIdx[r] + 1 = Len(Pairs(r)) THEN "stream" ELSE "subscribe"]
  /\ UNCHANGED <<rsleep, hp, curMsg, attempt, sendTx, metricVars, demo, poolVars, plannerVars, adapterVars, venueVars, senderVars>>

\* Per-symbol policy, a write fails: the gauge is lowered and `break` leaves the
\* `for pair in &pairs` loop; control falls through to the read loop.
SubscribeSymbolFail(r) ==
  /\ rpc[r] = "subscribe"
  /\ PerSymbol(r)
  /\ subIdx[r] < Len(Pairs(r))
  /\ ws_connections_active' = FetchSub(ws_connections_active)
  /\ rpc' = [rpc EXCEPT ![r] = "stream"]
  /\ UNCHANGED <<subIdx, sessionSubs, rsleep, hp, curMsg, attempt, sendTx,
                 trades_received, trades_forwarded, parse_errors, send_errors,
                 dropped_messages, demo, poolVars, plannerVars, adapterVars, venueVars, senderVars>>

\* The read loop ends (close frame, read error, end of stream): the gauge is
\* lowered, the session's locals go out of scope, then the bottom of the loop.
EndStreaming(r) ==
  /\ rpc[r] = "stream"
  /\ hp[r] = "idle"
  /\ ws_connections_active' = FetchSub(ws_connections_active)
  /\ subIdx' = [subIdx EXCEPT ![r] = 0]
  /\ sessionSubs' = [sessionSubs EXCEPT ![r] = <<>>]
  /\ EnterReconnectDelay(r)
  /\ UNCHANGED <<hp, curMsg, attempt, sendTx,
                 trades_received, trades_forwarded, parse_errors, send_errors,
                 dropped_messages, demo, poolVars, plannerVars, adapterVars, venueVars, senderVars>>

\* Ok(Message::Close(frame)) => break
RecvClose(r) == EndStreaming(r)
\* Err(_) => break, and read.next() returning None
RecvReadError(r) == EndStreaming(r)

\* One second of a sleep passes.
SleepTick(r) ==
  /\ rpc[r] = "delay"
  /\ rsleep[r] > 0
  /\ rsleep' = [rsleep EXCEPT ![r] = @ - 1]
  /\ UNCHANGED <<rpc, subIdx, sessionSubs, hp, curMsg, attempt, sendTx, metricVars,
                 demo, poolVars, plannerVars, adapterVars, venueVars, senderVars>>

\* The sleep is over: back to the top of the loop.
WakeUp(r) ==
  /\ rpc[r] = "delay"
  /\ rsleep[r] = 0
  /\ rpc' = [rpc EXCEPT ![r] = LoopTop(r)]
  /\ UNCHANGED <<subIdx, sessionSubs, rsleep, hp, curMsg, attempt, sendTx, metricVars,
                 demo, poolVars, plannerVars, adapterVars, venueVars, senderVars>>

\* ===================================================================
\* Runner: handle_parsed
\* ===================================================================

\* ParseResult::Market: trades_received += 1, then master.send(..).
\* In demo mode MasterPool::send prints and returns Ok at once.
OnMarket(r) ==
  /\ rpc[r] = "stream"
  /\ hp[r] = "idle"
  /\ trades_received < MaxMsgs
  /\ trades_received' = trades_received + 1
  /\ attempt' = [attempt EXCEPT ![r] = 0]
  /\ IF demo
       THEN /\ trades_forwarded' = trades_forwarded + 1
            /\ UNCHANGED <<hp, curMsg>>
       ELSE /\ trades_forwarded' = trades_forwarded
            /\ curMsg' = [curMsg EXCEPT ![r] = trades_received + 1]
            /\ hp' = [hp EXCEPT ![r] = "send_lock"]
  /\ UNCHANGED <<rpc, subIdx, sessionSubs, rsleep, sendTx, ws_connections_active,
                 parse_errors, send_errors, dropped_messages, demo, poolVars, plannerVars, adapterVars, senderVars>>
HandleParsedMarketDetached(r) ==
  /\ rpc[r] = "stream"
  /\ trades_received < MaxMsgs
  /\ trades_received' = trades_received + 1
  /\ attempt' = [attempt EXCEPT ![r] = 0]
  /\ IF demo
       THEN /\ trades_forwarded' = trades_forwarded + 1
            /\ UNCHANGED <<hp, curMsg, sendTx, lock>>
       ELSE /\ trades_forwarded' = trades_forwarded
            /\ curMsg' = [curMsg EXCEPT ![r] = trades_received + 1]
            /\ hp' = [hp EXCEPT ![r] = "send_lock"]
            /\ sendTx' = [sendTx EXCEPT ![r] = 0]
            /\ lock' = IF lock = <<"send", r>> THEN <<"free", 0>> ELSE lock
  /\ UNCHANGED <<rpc, subIdx, sessionSubs, rsleep, ws_connections_active,
                 parse_errors, send_errors, dropped_messages, demo, poolVars, plannerVars,
                 adapterVars, venueVars, gen, handle, rxOpen, chanq, connected, wpc, rdr,
                 notified, tickDue, ticks, curWrite, wire, transmitted, droppedIds,
                 stranded, bsleep>>
HandleParsedMarket(r) == OnMarket(r) /\ UNCHANGED venueVars

\* ParseResult::Control: nothing.
OnControl(r) ==
  /\ rpc[r] = "stream"
  /\ hp[r] = "idle"
  /\ UNCHANGED <<runnerVars, metricVars, demo, poolVars, plannerVars, adapterVars,
                 senderVars>>
HandleParsedControl(r) == OnControl(r) /\ UNCHANGED venueVars

\* ParseResult::Error: parse_errors += 1.
OnError(r) ==
  /\ rpc[r] = "stream"
  /\ hp[r] = "idle"
  /\ parse_errors < MaxParseErrors
  /\ parse_errors' = parse_errors + 1
  /\ UNCHANGED <<runnerVars, ws_connections_active, trades_received, trades_forwarded,
                 send_errors, dropped_messages, demo, poolVars, plannerVars, adapterVars, senderVars>>
HandleParsedErrorBreaks(r) ==
  /\ rpc[r] = "stream"
  /\ hp[r] = "idle"
  /\ parse_errors < MaxParseErrors
  /\ parse_errors' = parse_errors + 1
  /\ rpc' = [rpc EXCEPT ![r] = "delay"]
  /\ rsleep' = [rsleep EXCEPT ![r] = ReconnectDelaySecs]
  /\ UNCHANGED <<subIdx, sessionSubs, hp, curMsg, attempt, sendTx,
                 ws_connections_active, trades_received, trades_forwarded,
                 send_errors, dropped_messages, demo, poolVars, plannerVars,
                 adapterVars, venueVars, senderVars>>
HandleParsedError(r) == OnError(r) /\ UNCHANGED venueVars

\* Payloads of the protocol-level ping frames.
PingPayloads == 1..MaxPayload

\* Ok(Message::Ping(p)): write.lock().await.send(Message::Pong(p)) with the
\* payload of the ping; the result of the send is discarded and the loop
\* reads its next frame. The adapter is not called.
RecvPingEmptyPong(r, p) ==
  /\ rpc[r] = "stream"
  /\ hp[r] = "idle"
  /\ lastPing' = Ping(r, p, 0)
  /\ UNCHANGED <<runnerVars, metricVars, demo, poolVars, plannerVars, adapterVars,
                 names, KUCOIN_WS_URL, kucoin_init, kucoin_fetches, lastFrame, senderVars>>
RecvPing(r, p) ==
  /\ rpc[r] = "stream"
  /\ hp[r] = "idle"
  /\ lastPing' = Ping(r, p, p)
  /\ UNCHANGED <<runnerVars, metricVars, demo, poolVars, plannerVars, adapterVars,
                 names, KUCOIN_WS_URL, kucoin_init, kucoin_fetches, lastFrame, senderVars>>

\* What the text of a frame is to the adapter of Runner r: a trade update
\* (parse_message returns Market), a heartbeat or acknowledgement (Control),
\* text it cannot read (Error), and on KuCoin the JSON ping {"type":"ping"}.
Contents(r) ==
  {"market", "control", "error"} \cup (IF Venue(r) = "kucoin" THEN {"ping"} ELSE {})

\* adapter.parse_message(text, adapter.name()); KucoinAdapter::parse_message
\* returns Control for every `type` other than "message".
ParseMessage(c) ==
  CASE c = "market" -> "Market"
    [] c = "error" -> "Error"
    [] OTHER -> "Control"

\* Ok(Message::Text(text)): on KuCoin a JSON text whose type is "ping" is
\* answered with a JSON pong and `continue`; every other text goes through
\* handle_parsed(adapter.parse_message(&text, ..)).
TextOutcome(name, c) ==
  IF name = "kucoin" /\ c = "ping"
    THEN Handling(0, "none", TRUE)
    ELSE Handling(1, ParseMessage(c), FALSE)

\* Ok(Message::Binary(bin)): GzDecoder::read_to_string; when it is Ok the
\* decoded text goes through handle_parsed(adapter.parse_message(&decoded, ..)),
\* otherwise nothing is done with the frame.
BinaryOutcomeCountsError(gz, c) ==
  IF gz THEN Handling(1, ParseMessage(c), FALSE) ELSE Handling(1, "Error", FALSE)
BinaryOutcome(gz, c) ==
  IF gz THEN Handling(1, ParseMessage(c), FALSE) ELSE Handling(0, "none", FALSE)

\* handle_parsed(result, &master)
HandleParsed(r, res) ==
  CASE res = "Market" -> OnMarket(r)
    [] res = "Error" -> OnError(r)
    [] OTHER -> OnControl(r)

\* The read loop has taken a text or binary frame and done with it what the
\* outcome o says; then it reads its next frame.
FrameHandled(r, t, gz, c, o) ==
  /\ IF o.parses = 1
       THEN HandleParsed(r, o.result)
       ELSE /\ rpc[r] = "stream"
            /\ hp[r] = "idle"
            /\ UNCHANGED <<runnerVars, metricVars, demo, poolVars, plannerVars,
                           adapterVars, senderVars>>
  /\ lastFrame' = Read(r, t, gz, c, o, 1 - lastFrame.seq)
  /\ UNCHANGED <<names, KUCOIN_WS_URL, kucoin_init, kucoin_fetches, lastPing>>

RecvText(r, c) ==
  /\ c \in Contents(r)
  /\ FrameHandled(r, "text", TRUE, c, TextOutcome(Venue(r), c))

\* The binary frames of a venue: gzip of one of its texts, or bytes that do
\* not gunzip to a string.
BinaryFrames(r) ==
  {<<TRUE, c>> : c \in Contents(r)} \cup {<<FALSE, "none">>}

RecvBinary(r, gz, c) ==
  /\ <<gz, c>> \in BinaryFrames(r)
  /\ FrameHandled(r, "binary", gz, c, BinaryOutcome(gz, c))

\* ===================================================================
\* Specification of the Runner lifecycle (Pool in demo mode)
\* ===================================================================

\* State of a MasterSender when connect_loop returns: the placeholder channel
\* (its Receiver already dropped) and the background loop not yet run.
SenderIdle ==
  /\ gen = 0 /\ handle = 0 /\ rxOpen = FALSE /\ chanq = <<>> /\ lock = <<"free", 0>>
  /\ connected = FALSE /\ wpc = "create" /\ rdr = "none" /\ notified = FALSE
  /\ tickDue = FALSE /\ ticks = 0 /\ curWrite = NoMsg /\ wire = <<>>
  /\ transmitted = {} /\ droppedIds = {} /\ stranded = {} /\ bsleep = 0

\* MasterPool::new: `if !demo { for _ in 0..count { senders.push(..) } }`.
SendersCreatedAlways(d, n) == n
SendersCreated(d, n) == IF d THEN 0 ELSE n

Slots == 1..MaxConnections

\* State of the Pool when MasterPool::new(.., n, demo) has returned: the
\* Senders hold their placeholder channel (its Receiver dropped) and none of
\* the background loops has run yet.
PoolIdle(n) ==
  /\ count = n
  /\ senders = SendersCreated(demo, n)
  /\ sopen = [s \in Slots |-> FALSE]
  /\ sq = [s \in Slots |-> <<>>]
  /\ netOpened = FALSE
  /\ ppc = "idle" /\ pmsg = 0 /\ pattempt = 0 /\ picks = <<>>
  /\ presult = "none" /\ sink = <<>>

\* run_exchange has not been called (the variables of the Planner are unused).
PlannerIdle ==
  /\ pairsTrades = <<>> /\ pairsBooks = <<>> /\ chunk_size = 1
  /\ plpc = "done" /\ rest = <<>> /\ spawned = <<>>

Conns == 1..NumConns
\* A raw frame handed to parse_message: what it is, its number in arrival
\* order, how many trades it carries and its Bitfinex chanId.
RawFrame(k, i, n, ch) == [kind |-> k, id |-> i, n |-> n, chan |-> ch]
NoFrame == RawFrame("none", 0, 0, 0)
\* A canonical trade message: the frame it was decoded from and its place in it.
Trade(f, i) == [frame |-> f, idx |-> i]
NoTrade == Trade(0, 0)
\* What a parse_message call returned for a frame.
Outcome(f, res, t) == [frame |-> f, result |-> res, trade |-> t]
\* What build_subscribe_message returned: the channel and the symbols it names.
Request(ch, named) == [channel |-> ch, named |-> named]
NoRequest == Request("none", <<>>)

\* No adapter is in use (the variables of the adapter are unused).
AdapterIdle ==
  /\ akind = "none" /\ trade_buffer = <<>> /\ chan_map = {}
  /\ apc = [c \in Conns |-> "idle"]
  /\ aframe = [c \in Conns |-> NoFrame]
  /\ acked = [c \in Conns |-> 0]
  /\ calls = 0 /\ decoded = <<>> /\ emitted = <<>>
  /\ lastResult = [c \in Conns |-> Outcome(NoFrame, "none", NoTrade)]
  /\ subreq = [c \in Conns |-> NoRequest]

\* The KuCoin endpoint has not been asked for and no ping has arrived.
KucoinIdle ==
  /\ KUCOIN_WS_URL = "" /\ kucoin_init = 0 /\ kucoin_fetches = 0
  /\ lastPing = NoPing
  /\ lastFrame = NoRead

\* The Runners of a mixed deployment: Runner r runs the r-th venue of VenueList.
VenueIdle ==
  /\ names = [r \in Runners |-> VenueList[((r - 1) % Len(VenueList)) + 1]]
  /\ KucoinIdle

MetricsZero ==
  /\ trades_received = 0 /\ trades_forwarded = 0 /\ parse_errors = 0
  /\ send_errors = 0 /\ dropped_messages = 0

InitRunner ==
  /\ rpc = [r \in Runners |-> "connect"]
  /\ subIdx = [r \in Runners |-> 0]
  /\ sessionSubs = [r \in Runners |-> <<>>]
  /\ rsleep = [r \in Runners |-> 0]
  /\ hp = [r \in Runners |-> "idle"]
  /\ curMsg = [r \in Runners |-> 0]
  /\ attempt = [r \in Runners |-> 0]
  /\ sendTx = [r \in Runners |-> 0]
  /\ ws_connections_active = 0
  /\ MetricsZero
  /\ demo = TRUE
  /\ SenderIdle
  /\ PoolIdle(1)
  /\ PlannerIdle
  /\ AdapterIdle
  /\ VenueIdle

NextRunner ==
  \E r \in Runners :
    \/ ConnectOk(r)
    \/ ConnectFail(r)
    \/ SubscribeBatchOk(r)
    \/ SubscribeBatchFail(r)
    \/ SubscribeSymbolOk(r)
    \/ SubscribeSymbolFail(r)
    \/ RecvClose(r)
    \/ RecvReadError(r)
    \/ SleepTick(r)
    \/ WakeUp(r)
    \/ HandleParsedMarket(r)
    \/ HandleParsedControl(r)
    \/ HandleParsedError(r)

\* The timer of a sleep always expires.
RunnerFairness == \A r \in Runners : WF_vars(SleepTick(r) \/ WakeUp(r))

SpecRunner == InitRunner /\ [][NextRunner]_vars /\ RunnerFairness

\* ===================================================================
\* Runner: get_kucoin_ws_url
\* ===================================================================

\* format!("{endpoint}?token={token}")
KucoinUrl == <<"endpoint", "?token=", "token">>

\* get_or_try_init on a cell that is set: the cached URL is returned.
KucoinUrlCached(r) ==
  /\ rpc[r] = "resolve"
  /\ KUCOIN_WS_URL # ""
  /\ rpc' = [rpc EXCEPT ![r] = "connect"]
  /\ UNCHANGED <<subIdx, sessionSubs, rsleep, hp, curMsg, attempt, sendTx, metricVars,
                 demo, poolVars, plannerVars, adapterVars, venueVars, senderVars>>

\* get_or_try_init on an empty cell: the caller takes the cell's one init
\* permit (it waits while another caller holds it) and runs the closure,
\* the POST to /api/v1/bullet-public.
KucoinFetchStartUnguarded(r) ==
  /\ rpc[r] = "resolve"
  /\ KUCOIN_WS_URL = ""
  /\ kucoin_init' = r
  /\ rpc' = [rpc EXCEPT ![r] = "fetch"]
  /\ UNCHANGED <<subIdx, sessionSubs, rsleep, hp, curMsg, attempt, sendTx, metricVars,
                 demo, poolVars, plannerVars, adapterVars, names, KUCOIN_WS_URL,
                 kucoin_fetches, lastPing, lastFrame, senderVars>>
KucoinFetchStart(r) ==
  /\ rpc[r] = "resolve"
  /\ KUCOIN_WS_URL = ""
  /\ kucoin_init = 0
  /\ kucoin_init' = r
  /\ rpc' = [rpc EXCEPT ![r] = "fetch"]
  /\ UNCHANGED <<subIdx, sessionSubs, rsleep, hp, curMsg, attempt, sendTx, metricVars,
                 demo, poolVars, plannerVars, adapterVars, names, KUCOIN_WS_URL,
                 kucoin_fetches, lastPing, lastFrame, senderVars>>

\* The closure returns Ok(url): the cell is set and the permit is given up
\* (the waiters find the cell set); the Runner goes on to connect_async.
KucoinFetchOk(r) ==
  /\ rpc[r] = "fetch"
  /\ KUCOIN_WS_URL' = KucoinUrl
  /\ kucoin_fetches' = kucoin_fetches + 1
  /\ kucoin_init' = 0
  /\ rpc' = [rpc EXCEPT ![r] = "connect"]
  /\ UNCHANGED <<subIdx, sessionSubs, rsleep, hp, curMsg, attempt, sendTx, metricVars,
                 demo, poolVars, plannerVars, adapterVars, names, lastPing, lastFrame, senderVars>>

\* The closure returns Err (the request failed, token or endpoint missing):
\* the cell stays empty, the permit is given up, and run_ws_loop sleeps 10 s
\* and `continue`s at the top of its loop.
KucoinFetchFail(r) ==
  /\ rpc[r] = "fetch"
  /\ kucoin_init' = 0
  /\ rpc' = [rpc EXCEPT ![r] = "delay"]
  /\ rsleep' = [rsleep EXCEPT ![r] = KucoinRetrySecs]
  /\ UNCHANGED <<subIdx, sessionSubs, hp, curMsg, attempt, sendTx, metricVars,
                 demo, poolVars, plannerVars, adapterVars, names, KUCOIN_WS_URL,
                 kucoin_fetches, lastPing, lastFrame, senderVars>>

\* ===================================================================
\* Specification of the Runners of one venue: connect and subscribe
\* ===================================================================

\* The venues of this specification: the one with the fetched endpoint, one
\* more whose request is built from pairs[0], and one that names every symbol.
VenueKinds == {"kucoin", "bitrue", "coinbase"}

\* run_exchange has spawned the Runners of one venue, each with its chunk.
InitVenue ==
  /\ \E v \in VenueKinds : names = [r \in Runners |-> v]
  /\ KucoinIdle
  /\ rpc = [r \in Runners |-> LoopTop(r)]
  /\ subIdx = [r \in Runners |-> 0]
  /\ sessionSubs = [r \in Runners |-> <<>>]
  /\ rsleep = [r \in Runners |-> 0]
  /\ hp = [r \in Runners |-> "idle"]
  /\ curMsg = [r \in Runners |-> 0]
  /\ attempt = [r \in Runners |-> 0]
  /\ sendTx = [r \in Runners |-> 0]
  /\ ws_connections_active = 0
  /\ MetricsZero
  /\ demo = TRUE
  /\ SenderIdle
  /\ PoolIdle(1)
  /\ PlannerIdle
  /\ AdapterIdle

NextVenue ==
  \E r \in Runners :
    \/ KucoinUrlCached(r)
    \/ KucoinFetchStart(r)
    \/ KucoinFetchOk(r)
    \/ KucoinFetchFail(r)
    \/ ConnectOk(r)
    \/ ConnectFail(r)
    \/ SubscribeBatchOk(r)
    \/ SubscribeBatchFail(r)
    \/ RecvClose(r)
    \/ RecvReadError(r)
    \/ SleepTick(r)
    \/ WakeUp(r)

SpecVenue == InitVenue /\ [][NextVenue]_vars

\* ===================================================================
\* Specification of the frames of established sessions (Pool in demo mode)
\* ===================================================================

\* Every Runner has connected and subscribed and is in its read loop.
RunnersStreaming ==
  /\ rpc = [r \in Runners |-> "stream"]
  /\ subIdx = [r \in Runners |-> NumRequests(r)]
  /\ sessionSubs = [r \in Runners |->
       IF PerSymbol(r)
         THEN [i \in 1..Len(Pairs(r)) |-> SubscribeRequest(r, <<Pairs(r)[i]>>)]
         ELSE <<SubscribeRequest(r, Pairs(r))>>]
  /\ rsleep = [r \in Runners |-> 0]
  /\ hp = [r \in Runners |-> "idle"]
  /\ curMsg = [r \in Runners |-> 0]
  /\ attempt = [r \in Runners |-> 0]
  /\ sendTx = [r \in Runners |-> 0]
  /\ ws_connections_active = NumRunners % UsizeMod

InitFrames ==
  /\ \/ VenueIdle
     \/ /\ names = [r \in Runners |-> "kucoin"]
        /\ KUCOIN_WS_URL = KucoinUrl /\ kucoin_init = 0 /\ kucoin_fetches = 1
        /\ lastPing = NoPing /\ lastFrame = NoRead
  /\ RunnersStreaming
  /\ MetricsZero
  /\ demo = TRUE
  /\ SenderIdle
  /\ PoolIdle(1)
  /\ PlannerIdle
  /\ AdapterIdle

\* One frame arrives on the session of a Runner: a ping, a text frame whose
\* parse result is Market, Control or Error, a close frame, or a read error.
\* A session that has ended is not followed further here (SpecRunner does).
NextFrames ==
  \E r \in Runners :
    \/ \E p \in PingPayloads : RecvPing(r, p)
    \/ \E c \in Contents(r) : RecvText(r, c)
    \/ \E f \in BinaryFrames(r) : RecvBinary(r, f[1], f[2])
    \/ RecvClose(r)
    \/ RecvReadError(r)

SpecFrames == InitFrames /\ [][NextFrames]_vars

\* ===================================================================
\* MasterSender: connect_loop / try_connect
\* ===================================================================

\* Login string built by MasterPool::new: format!("key={}&role=collector", key).
ApiKey == "KEY"
FormatLogin(key) == <<"key=", key, "&role=collector">>
\* Heartbeat text: r#"{"op":"ping"}"#.
PingText == <<"{\"op\":\"ping\"}">>

\* One frame written on a link.
Frame(k, t, m, l) == [kind |-> k, text |-> t, id |-> m.id, gen |-> m.gen, link |-> l]

\* The tokio Mutex around `queue` is free.
MutexAlwaysFree == TRUE
MutexFree == lock[1] = "free"

\* mpsc::channel::<Value>(10_000): a new, empty channel.
ReuseChannel == chanq
NewChannel == <<>>

\* The link is established (try_connect is past connect_async).
LinkUp == wpc \in {"login", "top", "select", "write_data", "write_ping"}

\* try_connect returns: its Receiver is dropped, then sleep(30 s).
\* The reader task of the link keeps its own Notify and touches nothing else.
LinkDown ==
  /\ rxOpen' = FALSE
  /\ wpc' = "backoff"
  /\ rdr' = "none"
  /\ notified' = FALSE
  /\ tickDue' = FALSE
  /\ ticks' = 0
  /\ curWrite' = NoMsg
  /\ wire' = <<>>
  /\ stranded' = stranded \cup {chanq[i].id : i \in 1..Len(chanq)}
  /\ bsleep' = BackoffSecs

\* let (tx, rx) = mpsc::channel(10_000)
CreateQueue ==
  /\ wpc = "create"
  /\ gen < MaxGen
  /\ gen' = gen + 1
  /\ rxOpen' = TRUE
  /\ chanq' = NewChannel
  /\ wpc' = "lock"
  /\ UNCHANGED <<runnerVars, metricVars, demo, poolVars, plannerVars, adapterVars, venueVars, handle, lock, connected, rdr, notified,
                 tickDue, ticks, curWrite, wire, transmitted, droppedIds, stranded, bsleep>>

\* let mut q = queue.lock().await
SwapLock ==
  /\ wpc = "lock"
  /\ MutexFree
  /\ lock' = <<"loop", 0>>
  /\ wpc' = "assign"
  /\ UNCHANGED <<runnerVars, metricVars, demo, poolVars, plannerVars, adapterVars, venueVars, gen, handle, rxOpen, chanq, connected, rdr,
                 notified, tickDue, ticks, curWrite, wire, transmitted, droppedIds, stranded, bsleep>>

\* *q = tx; the guard is dropped
SwapAssign ==
  /\ wpc = "assign"
  /\ handle' = gen
  /\ lock' = <<"free", 0>>
  /\ wpc' = "connect"
  /\ UNCHANGED <<runnerVars, metricVars, demo, poolVars, plannerVars, adapterVars, venueVars, gen, rxOpen, chanq, connected, rdr,
                 notified, tickDue, ticks, curWrite, wire, transmitted, droppedIds, stranded, bsleep>>

\* connect_async(&master_url) succeeds; connected.set(())
SenderConnectOk ==
  /\ wpc = "connect"
  /\ connected' = TRUE
  /\ wpc' = "login"
  /\ wire' = <<>>
  /\ UNCHANGED <<runnerVars, metricVars, demo, poolVars, plannerVars, adapterVars, venueVars, gen, handle, rxOpen, chanq, lock, rdr,
                 notified, tickDue, ticks, curWrite, transmitted, droppedIds, stranded, bsleep>>

\* connect_async fails: `?` returns
SenderConnectFail ==
  /\ wpc = "connect"
  /\ LinkDown
  /\ UNCHANGED <<runnerVars, metricVars, demo, poolVars, plannerVars, adapterVars, venueVars, gen, handle, chanq, lock, connected,
                 transmitted, droppedIds>>

\* write.send(login) succeeds; the interval is created (its first tick is
\* immediate) and the reader task is spawned.
LoginNotWritten ==
  /\ wpc = "login"
  /\ tickDue' = TRUE
  /\ ticks' = 0
  /\ rdr' = "reading"
  /\ notified' = FALSE
  /\ wpc' = "top"
  /\ UNCHANGED <<runnerVars, metricVars, demo, poolVars, plannerVars, adapterVars, venueVars, gen, handle, rxOpen, chanq, lock,
                 connected, curWrite, wire, transmitted, droppedIds, stranded, bsleep>>
LoginOkTickAfterPeriod ==
  /\ wpc = "login"
  /\ wire' = Append(wire, Frame("login", FormatLogin(ApiKey), NoMsg, gen))
  /\ tickDue' = FALSE
  /\ ticks' = 0
  /\ rdr' = "reading"
  /\ notified' = FALSE
  /\ wpc' = "top"
  /\ UNCHANGED <<runnerVars, metricVars, demo, poolVars, plannerVars, adapterVars, venueVars, gen, handle, rxOpen, chanq, lock,
                 connected, curWrite, transmitted, droppedIds, stranded, bsleep>>
LoginOk ==
  /\ wpc = "login"
  /\ wire' = Append(wire, Frame("login", FormatLogin(ApiKey), NoMsg, gen))
  /\ tickDue' = TRUE
  /\ ticks' = 0
  /\ rdr' = "reading"
  /\ notified' = FALSE
  /\ wpc' = "top"
  /\ UNCHANGED <<runnerVars, metricVars, demo, poolVars, plannerVars, adapterVars, venueVars, gen, handle, rxOpen, chanq, lock,
                 connected, curWrite, transmitted, droppedIds, stranded, bsleep>>

\* write.send(login) fails: `?` returns
LoginFail ==
  /\ wpc = "login"
  /\ LinkDown
  /\ UNCHANGED <<runnerVars, metricVars, demo, poolVars, plannerVars, adapterVars, venueVars, gen, handle, chanq, lock, connected,
                 transmitted, droppedIds>>

\* Top of the writer loop: select! creates rx.recv(), ping_interval.tick() and a
\* new closed.notified() future and waits on them.
EnterSelect ==
  /\ wpc = "top"
  /\ wpc' = "select"
  /\ notified' = FALSE
  /\ UNCHANGED <<runnerVars, metricVars, demo, poolVars, plannerVars, adapterVars, venueVars, gen, handle, rxOpen, chanq, lock,
                 connected, rdr, tickDue, ticks, curWrite, wire, transmitted, droppedIds, stranded, bsleep>>

\* select! takes `Some(msg) = rx.recv()`; the other futures are dropped.
SelectRecvNewest ==
  /\ wpc = "select"
  /\ chanq # <<>>
  /\ curWrite' = chanq[Len(chanq)]
  /\ chanq' = SubSeq(chanq, 1, Len(chanq) - 1)
  /\ notified' = FALSE
  /\ wpc' = "write_data"
  /\ UNCHANGED <<runnerVars, metricVars, demo, poolVars, plannerVars, adapterVars, venueVars, gen, handle, rxOpen, lock, connected, rdr,
                 tickDue, ticks, wire, transmitted, droppedIds, stranded, bsleep>>
SelectRecv ==
  /\ wpc = "select"
  /\ chanq # <<>>
  /\ curWrite' = Head(chanq)
  /\ chanq' = Tail(chanq)
  /\ notified' = FALSE
  /\ wpc' = "write_data"
  /\ UNCHANGED <<runnerVars, metricVars, demo, poolVars, plannerVars, adapterVars, venueVars, gen, handle, rxOpen, lock, connected, rdr,
                 tickDue, ticks, wire, transmitted, droppedIds, stranded, bsleep>>

\* select! takes `_ = ping_interval.tick()`; the other futures are dropped.
SelectTick ==
  /\ wpc = "select"
  /\ tickDue
  /\ tickDue' = FALSE
  /\ notified' = FALSE
  /\ wpc' = "write_ping"
  /\ UNCHANGED <<runnerVars, metricVars, demo, poolVars, plannerVars, adapterVars, venueVars, gen, handle, rxOpen, chanq, lock,
                 connected, rdr, ticks, curWrite, wire, transmitted, droppedIds, stranded, bsleep>>

\* select! takes `_ = closed.notified()`: return Err("Master closed connection")
SelectClosed ==
  /\ wpc = "select"
  /\ notified
  /\ LinkDown
  /\ UNCHANGED <<runnerVars, metricVars, demo, poolVars, plannerVars, adapterVars, venueVars, gen, handle, chanq, lock, connected,
                 transmitted, droppedIds>>

\* write.send(Message::Text(json)) of the dequeued message succeeds
WriteDataOk ==
  /\ wpc = "write_data"
  /\ wire' = Append(wire, Frame("data", <<>>, curWrite, gen))
  /\ transmitted' = transmitted \cup {curWrite.id}
  /\ curWrite' = NoMsg
  /\ wpc' = "top"
  /\ UNCHANGED <<runnerVars, metricVars, demo, poolVars, plannerVars, adapterVars, venueVars, gen, handle, rxOpen, chanq, lock,
                 connected, rdr, notified, tickDue, ticks, droppedIds, stranded, bsleep>>

\* ... or fails: `?` returns
WriteDataFail ==
  /\ wpc = "write_data"
  /\ LinkDown
  /\ UNCHANGED <<runnerVars, metricVars, demo, poolVars, plannerVars, adapterVars, venueVars, gen, handle, chanq, lock, connected,
                 transmitted, droppedIds>>

\* write.send(Message::Text(ping)) succeeds
WritePingOk ==
  /\ wpc = "write_ping"
  /\ wire' = Append(wire, Frame("ping", PingText, NoMsg, gen))
  /\ wpc' = "top"
  /\ UNCHANGED <<runnerVars, metricVars, demo, poolVars, plannerVars, adapterVars, venueVars, gen, handle, rxOpen, chanq, lock,
                 connected, rdr, notified, tickDue, ticks, curWrite, transmitted,
                 droppedIds, stranded, bsleep>>

\* ... or fails: `?` returns
WritePingFail ==
  /\ wpc = "write_ping"
  /\ LinkDown
  /\ UNCHANGED <<runnerVars, metricVars, demo, poolVars, plannerVars, adapterVars, venueVars, gen, handle, chanq, lock, connected,
                 transmitted, droppedIds>>

\* The heartbeat interval elapses.
TickElapse ==
  /\ wpc \in {"top", "select", "write_data", "write_ping"}
  /\ ~tickDue
  /\ ticks < MaxTicks
  /\ tickDue' = TRUE
  /\ ticks' = ticks + 1
  /\ UNCHANGED <<runnerVars, metricVars, demo, poolVars, plannerVars, adapterVars, venueVars, gen, handle, rxOpen, chanq, lock,
                 connected, wpc, rdr, notified, curWrite, wire, transmitted, droppedIds, stranded, bsleep>>

\* Reader task: read.next() yields None or Err, the while-let ends and
\* closed.notify_waiters() wakes the Notified futures that exist right now;
\* no permit is stored for a future created later.
ReaderEnd ==
  /\ rdr = "reading"
  /\ rdr' = "ended"
  /\ notified' = (wpc = "select")
  /\ UNCHANGED <<runnerVars, metricVars, demo, poolVars, plannerVars, adapterVars, venueVars, gen, handle, rxOpen, chanq, lock,
                 connected, wpc, tickDue, ticks, curWrite, wire, transmitted, droppedIds, stranded, bsleep>>

\* The timer of the backoff sleep runs down (the sleep is one await; nothing
\* of the Sender happens while it runs).
BackoffElapse ==
  /\ wpc = "backoff"
  /\ bsleep > 0
  /\ bsleep' = 0
  /\ UNCHANGED <<runnerVars, metricVars, demo, poolVars, plannerVars, adapterVars, venueVars, gen, handle, rxOpen, chanq, lock,
                 connected, wpc, rdr, notified, tickDue, ticks, curWrite, wire,
                 transmitted, droppedIds, stranded>>

\* sleep(Duration::from_secs(30)) is over: next iteration of the loop.
BackoffOverKeepsQueue ==
  /\ wpc = "backoff"
  /\ bsleep = 0
  /\ wpc' = "connect"
  /\ UNCHANGED <<runnerVars, metricVars, demo, poolVars, plannerVars, adapterVars, venueVars, gen, handle, rxOpen, chanq, lock,
                 connected, rdr, notified, tickDue, ticks, curWrite, wire, transmitted,
                 droppedIds, stranded, bsleep>>
BackoffOver ==
  /\ wpc = "backoff"
  /\ bsleep = 0
  /\ wpc' = "create"
  /\ UNCHANGED <<runnerVars, metricVars, demo, poolVars, plannerVars, adapterVars, venueVars, gen, handle, rxOpen, chanq, lock,
                 connected, rdr, notified, tickDue, ticks, curWrite, wire, transmitted,
                 droppedIds, stranded, bsleep>>

\* ===================================================================
\* MasterSender::send and MasterPool::send, called from handle_parsed
\* ===================================================================

\* tx.try_send(msg) on the Sender of generation tx: the channel is closed when
\* its Receiver is gone, full when it buffers its capacity.
TrySendUnbounded(tx) ==
  IF ~(rxOpen /\ tx = gen) THEN "closed" ELSE "ok"
TrySend(tx) ==
  IF ~(rxOpen /\ tx = gen) THEN "closed"
  ELSE IF Len(chanq) >= QueueCap THEN "full"
  ELSE "ok"

\* match tx.try_send(msg) { Ok => Ok, Err(Full) => Ok, Err(e) => Err }
SendReturnsErrAlways(res) == FALSE
SendReturnsOkAlways(res) == TRUE
SendReturnsOk(res) == res \in {"ok", "full"}

\* self.connected.get_or_init(|| async {}).await: the cell is set by the
\* caller itself when it is empty, so the call never waits; then
\* let tx = self.queue.lock().await
SendLock(r) ==
  /\ rpc[r] = "stream"
  /\ hp[r] = "send_lock"
  /\ connected' = TRUE
  /\ MutexFree
  /\ lock' = <<"send", r>>
  /\ sendTx' = [sendTx EXCEPT ![r] = handle]
  /\ hp' = [hp EXCEPT ![r] = "send_try"]
  /\ UNCHANGED <<rpc, subIdx, sessionSubs, rsleep, curMsg, attempt, metricVars, demo, poolVars, plannerVars, adapterVars, venueVars,
                 gen, handle, rxOpen, chanq, wpc, rdr, notified, tickDue,
                 ticks, curWrite, wire, transmitted, droppedIds, stranded, bsleep>>

\* tx.try_send(msg), the guard is dropped, and on Ok MasterPool::send returns Ok
\* and handle_parsed counts trades_forwarded; on Err the Pool sleeps 100 ms.
SendTry(r) ==
  /\ rpc[r] = "stream"
  /\ hp[r] = "send_try"
  /\ LET res == TrySend(sendTx[r]) IN
       /\ chanq' = IF res = "ok" THEN Append(chanq, Msg(curMsg[r], sendTx[r])) ELSE chanq
       /\ droppedIds' = IF res = "full" THEN droppedIds \cup {curMsg[r]} ELSE droppedIds
       /\ IF SendReturnsOk(res)
            THEN /\ trades_forwarded' = trades_forwarded + 1
                 /\ hp' = [hp EXCEPT ![r] = "idle"]
                 /\ curMsg' = [curMsg EXCEPT ![r] = 0]
                 /\ attempt' = [attempt EXCEPT ![r] = 0]
            ELSE /\ trades_forwarded' = trades_forwarded
                 /\ hp' = [hp EXCEPT ![r] = "pool_sleep"]
                 /\ UNCHANGED <<curMsg, attempt>>
  /\ lock' = <<"free", 0>>
  /\ sendTx' = [sendTx EXCEPT ![r] = 0]
  /\ UNCHANGED <<rpc, subIdx, sessionSubs, rsleep,
                 ws_connections_active, trades_received, parse_errors, send_errors,
                 dropped_messages, demo, poolVars, plannerVars, adapterVars, venueVars, gen, handle, rxOpen, connected, wpc, rdr,
                 notified, tickDue, ticks, curWrite, wire, transmitted, stranded, bsleep>>

\* sleep(100 ms) is over: the next attempt, or after the third one
\* Err("All master connections busy") and handle_parsed counts the drop.
PoolRetryPropagates(r) ==
  /\ rpc[r] = "stream"
  /\ hp[r] = "pool_sleep"
  /\ IF attempt[r] + 1 < PoolAttempts
       THEN /\ hp' = [hp EXCEPT ![r] = "send_lock"]
            /\ attempt' = [attempt EXCEPT ![r] = @ + 1]
            /\ UNCHANGED <<rpc, rsleep, curMsg, send_errors, dropped_messages>>
       ELSE /\ hp' = [hp EXCEPT ![r] = "idle"]
            /\ attempt' = [attempt EXCEPT ![r] = 0]
            /\ curMsg' = [curMsg EXCEPT ![r] = 0]
            /\ send_errors' = send_errors + 1
            /\ dropped_messages' = dropped_messages + 1
            /\ rpc' = [rpc EXCEPT ![r] = "delay"]
            /\ rsleep' = [rsleep EXCEPT ![r] = ReconnectDelaySecs]
  /\ UNCHANGED <<subIdx, sessionSubs, sendTx, ws_connections_active,
                 trades_received, trades_forwarded, parse_errors, demo, poolVars,
                 plannerVars, adapterVars, venueVars, senderVars>>
PoolRetry(r) ==
  /\ rpc[r] = "stream"
  /\ hp[r] = "pool_sleep"
  /\ IF attempt[r] + 1 < PoolAttempts
       THEN /\ hp' = [hp EXCEPT ![r] = "send_lock"]
            /\ attempt' = [attempt EXCEPT ![r] = @ + 1]
            /\ UNCHANGED <<curMsg, send_errors, dropped_messages>>
       ELSE /\ hp' = [hp EXCEPT ![r] = "idle"]
            /\ attempt' = [attempt EXCEPT ![r] = 0]
            /\ curMsg' = [curMsg EXCEPT ![r] = 0]
            /\ send_errors' = send_errors + 1
            /\ dropped_messages' = dropped_messages + 1
  /\ UNCHANGED <<rpc, subIdx, sessionSubs, rsleep, sendTx, ws_connections_active,
                 trades_received, trades_forwarded, parse_errors, demo, poolVars, plannerVars, adapterVars, venueVars, senderVars>>

\* ===================================================================
\* Specification of one MasterSender fed by Streaming Runners
\* ===================================================================

InitSender ==
  /\ VenueIdle
  /\ rpc = [r \in Runners |-> "stream"]
  /\ subIdx = [r \in Runners |-> NumRequests(r)]
  /\ sessionSubs = [r \in Runners |->
       IF PerSymbol(r)
         THEN [i \in 1..Len(Pairs(r)) |-> SubscribeRequest(r, <<Pairs(r)[i]>>)]
         ELSE <<SubscribeRequest(r, Pairs(r))>>]
  /\ rsleep = [r \in Runners |-> 0]
  /\ hp = [r \in Runners |-> "idle"]
  /\ curMsg = [r \in Runners |-> 0]
  /\ attempt = [r \in Runners |-> 0]
  /\ sendTx = [r \in Runners |-> 0]
  /\ ws_connections_active = NumRunners % UsizeMod
  /\ MetricsZero
  /\ demo = FALSE
  /\ SenderIdle
  /\ PoolIdle(1)
  /\ PlannerIdle
  /\ AdapterIdle

NextSender ==
  \/ CreateQueue
  \/ SwapLock
  \/ SwapAssign
  \/ SenderConnectOk
  \/ SenderConnectFail
  \/ LoginOk
  \/ LoginFail
  \/ EnterSelect
  \/ SelectRecv
  \/ SelectTick
  \/ SelectClosed
  \/ WriteDataOk
  \/ WriteDataFail
  \/ WritePingOk
  \/ WritePingFail
  \/ TickElapse
  \/ ReaderEnd
  \/ BackoffElapse
  \/ BackoffOver
  \/ \E r \in Producers :
       \/ HandleParsedMarket(r)
       \/ SendLock(r)
       \/ SendTry(r)
       \/ PoolRetry(r)

\* The backoff timer always expires, the loop's own steps are always taken,
\* and a send that holds the mutex releases it (the tokio Mutex is fair).
SenderFairness ==
  /\ WF_vars(BackoffElapse \/ BackoffOver)
  /\ WF_vars(CreateQueue)
  /\ WF_vars(SwapLock)
  /\ WF_vars(SwapAssign)
  /\ \A r \in Producers : WF_vars(SendTry(r))

SpecSender == InitSender /\ [][NextSender]_vars /\ SenderFairness

\* The writer task runs: it comes back to select!, a write it has begun
\* completes (with Ok or Err), and select!, which polls its branches in random
\* order, does not pass over a ready ping_interval.tick() forever.
WriterFairness ==
  /\ WF_vars(EnterSelect)
  /\ SF_vars(SelectTick)
  /\ WF_vars(WriteDataOk \/ WriteDataFail)
  /\ WF_vars(WritePingOk \/ WritePingFail)

SpecHeartbeat == InitSender /\ [][NextSender]_vars /\ SenderFairness /\ WriterFairness

\* ===================================================================
\* MasterPool over several Senders
\* ===================================================================

\* tx.try_send(msg) on the current queue of Sender s.
TrySendTo(s) ==
  IF ~sopen[s] THEN "closed"
  ELSE IF Len(sq[s]) >= QueueCap THEN "full"
  ELSE "ok"

\* The ids buffered on any Sender.
Enqueued == UNION {{sq[s][i] : i \in 1..Len(sq[s])} : s \in Slots}

\* Reconnect loop of Sender s: a new channel replaces the old one and
\* connect_async is called.
SenderUp(s) ==
  /\ s \in 1..senders
  /\ ~sopen[s]
  /\ sopen' = [sopen EXCEPT ![s] = TRUE]
  /\ sq' = [sq EXCEPT ![s] = NewChannel]
  /\ netOpened' = TRUE
  /\ UNCHANGED <<runnerVars, metricVars, demo, count, senders, ppc, pmsg, pattempt,
                 picks, presult, sink, plannerVars, adapterVars, venueVars, senderVars>>

\* try_connect of Sender s returns: its Receiver is dropped with what it buffers.
SenderDown(s) ==
  /\ s \in 1..senders
  /\ sopen[s]
  /\ sopen' = [sopen EXCEPT ![s] = FALSE]
  /\ sq' = [sq EXCEPT ![s] = <<>>]
  /\ UNCHANGED <<runnerVars, metricVars, demo, count, senders, netOpened, ppc, pmsg,
                 pattempt, picks, presult, sink, plannerVars, adapterVars, venueVars, senderVars>>

\* The writer of Sender s dequeues a message and writes it.
SenderWrite(s) ==
  /\ s \in 1..senders
  /\ sopen[s]
  /\ sq[s] # <<>>
  /\ sq' = [sq EXCEPT ![s] = Tail(@)]
  /\ UNCHANGED <<runnerVars, metricVars, demo, count, senders, sopen, netOpened, ppc,
                 pmsg, pattempt, picks, presult, sink, plannerVars, adapterVars, venueVars,
                 senderVars>>

\* handle_parsed(Market): trades_received += 1 and MasterPool::send is entered.
\* In demo mode it prints the message and returns Ok; handle_parsed counts it
\* as forwarded.
PoolSend ==
  /\ ppc = "idle"
  /\ trades_received < MaxMsgs
  /\ trades_received' = trades_received + 1
  /\ picks' = <<>>
  /\ pattempt' = 0
  /\ IF demo
       THEN /\ sink' = Append(sink, trades_received + 1)
            /\ presult' = "ok"
            /\ trades_forwarded' = trades_forwarded + 1
            /\ UNCHANGED <<ppc, pmsg>>
       ELSE /\ ppc' = "pick"
            /\ pmsg' = trades_received + 1
            /\ UNCHANGED <<sink, presult, trades_forwarded>>
  /\ UNCHANGED <<runnerVars, ws_connections_active, parse_errors, send_errors,
                 dropped_messages, demo, count, senders, sopen, sq, netOpened,
                 plannerVars, adapterVars, venueVars, senderVars>>

\* let idx = random_range(0..self.senders.len()) with no Sender: the range is
\* empty and random_range panics.
PoolPickPanics ==
  /\ ppc = "pick"
  /\ senders = 0
  /\ ppc' = "panicked"
  /\ UNCHANGED <<runnerVars, metricVars, demo, count, senders, sopen, sq, netOpened,
                 pmsg, pattempt, picks, presult, sink, plannerVars, adapterVars, venueVars,
                 senderVars>>

\* One pass of the loop body: idx is drawn, senders[idx].send(msg) runs; on Ok
\* MasterPool::send returns Ok (handle_parsed counts trades_forwarded), on Err
\* it sleeps 100 ms.
PoolAttempt(idx) ==
  /\ ppc = "pick"
  /\ idx \in 1..senders
  /\ picks' = Append(picks, idx)
  /\ LET res == TrySendTo(idx) IN
       /\ sq' = IF res = "ok" THEN [sq EXCEPT ![idx] = Append(@, pmsg)] ELSE sq
       /\ IF SendReturnsOk(res)
            THEN /\ ppc' = "idle"
                 /\ presult' = "ok"
                 /\ pmsg' = 0
                 /\ trades_forwarded' = trades_forwarded + 1
            ELSE /\ ppc' = "sleep"
                 /\ UNCHANGED <<presult, pmsg, trades_forwarded>>
  /\ UNCHANGED <<runnerVars, ws_connections_active, trades_received, parse_errors,
                 send_errors, dropped_messages, demo, count, senders, sopen, netOpened,
                 pattempt, sink, plannerVars, adapterVars, venueVars, senderVars>>

\* sleep(100 ms) is over: the next pass, or after the last one
\* Err("All master connections busy"); handle_parsed counts send_errors and
\* dropped_messages.
PoolSleepOverOnce ==
  /\ ppc = "sleep"
  /\ ppc' = "idle"
  /\ presult' = "err"
  /\ pmsg' = 0
  /\ send_errors' = send_errors + 1
  /\ dropped_messages' = dropped_messages + 1
  /\ UNCHANGED <<runnerVars, ws_connections_active, trades_received, trades_forwarded,
                 parse_errors, demo, count, senders, sopen, sq, netOpened, pattempt,
                 picks, sink, plannerVars, adapterVars, venueVars, senderVars>>
PoolSleepOver ==
  /\ ppc = "sleep"
  /\ IF pattempt + 1 < PoolAttempts
       THEN /\ ppc' = "pick"
            /\ pattempt' = pattempt + 1
            /\ UNCHANGED <<presult, pmsg, send_errors, dropped_messages>>
       ELSE /\ ppc' = "idle"
            /\ presult' = "err"
            /\ pmsg' = 0
            /\ pattempt' = pattempt
            /\ send_errors' = send_errors + 1
            /\ dropped_messages' = dropped_messages + 1
  /\ UNCHANGED <<runnerVars, ws_connections_active, trades_received, trades_forwarded,
                 parse_errors, demo, count, senders, sopen, sq, netOpened, picks, sink,
                 plannerVars, adapterVars, venueVars, senderVars>>

\* State of the Runner and single-Sender variables in the Pool's specification.
RunnersIdle ==
  /\ rpc = [r \in Runners |-> "stream"]
  /\ subIdx = [r \in Runners |-> 0]
  /\ sessionSubs = [r \in Runners |-> <<>>]
  /\ rsleep = [r \in Runners |-> 0]
  /\ hp = [r \in Runners |-> "idle"]
  /\ curMsg = [r \in Runners |-> 0]
  /\ attempt = [r \in Runners |-> 0]
  /\ sendTx = [r \in Runners |-> 0]
  /\ ws_connections_active = 0

InitPool ==
  /\ RunnersIdle
  /\ MetricsZero
  /\ SenderIdle
  /\ PlannerIdle
  /\ AdapterIdle
  /\ VenueIdle
  /\ demo \in BOOLEAN
  /\ \E n \in 0..MaxConnections : PoolIdle(n)

NextPool ==
  \/ PoolSend
  \/ PoolPickPanics
  \/ \E idx \in Slots : PoolAttempt(idx)
  \/ PoolSleepOver
  \/ \E s \in Slots :
       \/ SenderUp(s)
       \/ SenderDown(s)
       \/ SenderWrite(s)

SpecPool == InitPool /\ [][NextPool]_vars

\* ===================================================================
\* Fan-out Planner: run_exchange / spawn_channel_chunks
\* ===================================================================

\* spawn_channel_chunks(Trades): pairs.chunks(chunk_size) panics when
\* chunk_size is 0 ("chunk size must be non-zero"), inside run_exchange.
PlanTradesPanics ==
  /\ plpc = "trades"
  /\ chunk_size = 0
  /\ plpc' = "panicked"
  /\ UNCHANGED <<runnerVars, metricVars, demo, poolVars, pairsTrades, pairsBooks,
                 chunk_size, rest, spawned, adapterVars, venueVars, senderVars>>

\* spawn_channel_chunks(Trades): the `for chunk in pairs.chunks(chunk_size)` starts.
PlanTradesStart ==
  /\ plpc = "trades"
  /\ chunk_size > 0
  /\ rest' = pairsTrades
  /\ plpc' = "trades_loop"
  /\ UNCHANGED <<runnerVars, metricVars, demo, poolVars, pairsTrades, pairsBooks,
                 chunk_size, spawned, adapterVars, venueVars, senderVars>>

\* One pass of the Trades loop: the next chunk gets its Runner.
SpawnTradesRunnerExact ==
  /\ plpc = "trades_loop"
  /\ rest # <<>>
  /\ spawned' = IF Len(rest) >= chunk_size
                  THEN Append(spawned, RunnerSpec("Trades", SubSeq(rest, 1, chunk_size)))
                  ELSE spawned
  /\ rest' = SubSeq(rest, Min(chunk_size, Len(rest)) + 1, Len(rest))
  /\ UNCHANGED <<runnerVars, metricVars, demo, poolVars, pairsTrades, pairsBooks,
                 chunk_size, plpc, adapterVars, venueVars, senderVars>>
SpawnTradesRunner ==
  /\ plpc = "trades_loop"
  /\ rest # <<>>
  /\ spawned' = Append(spawned, RunnerSpec("Trades", Head(Chunks(rest, chunk_size))))
  /\ rest' = SubSeq(rest, Min(chunk_size, Len(rest)) + 1, Len(rest))
  /\ UNCHANGED <<runnerVars, metricVars, demo, poolVars, pairsTrades, pairsBooks,
                 chunk_size, plpc, adapterVars, venueVars, senderVars>>

\* The Trades loop is over; spawn_channel_chunks(OrderBooks): `for pair in pairs` starts.
PlanBooksStart ==
  /\ plpc = "trades_loop"
  /\ rest = <<>>
  /\ rest' = pairsBooks
  /\ plpc' = "books_loop"
  /\ UNCHANGED <<runnerVars, metricVars, demo, poolVars, pairsTrades, pairsBooks,
                 chunk_size, spawned, adapterVars, venueVars, senderVars>>

\* One pass of the OrderBooks loop: run_ws_loop(.., OrderBooks, vec![pair], ..).
SpawnBookRunner ==
  /\ plpc = "books_loop"
  /\ rest # <<>>
  /\ spawned' = Append(spawned, RunnerSpec("OrderBooks", <<Head(rest)>>))
  /\ rest' = Tail(rest)
  /\ UNCHANGED <<runnerVars, metricVars, demo, poolVars, pairsTrades, pairsBooks,
                 chunk_size, plpc, adapterVars, venueVars, senderVars>>

\* run_exchange returns Ok(()).
PlanDone ==
  /\ plpc = "books_loop"
  /\ rest = <<>>
  /\ plpc' = "done"
  /\ UNCHANGED <<runnerVars, metricVars, demo, poolVars, pairsTrades, pairsBooks,
                 chunk_size, rest, spawned, adapterVars, venueVars, senderVars>>

\* run_exchange is called with a venue's configuration.
InitPlanner ==
  /\ RunnersIdle
  /\ MetricsZero
  /\ SenderIdle
  /\ demo = TRUE
  /\ PoolIdle(1)
  /\ AdapterIdle
  /\ VenueIdle
  /\ \E n \in 0..MaxPairs : pairsTrades = SubSeq(SymbolList, 1, n)
  /\ \E n \in 0..MaxPairs : pairsBooks = SubSeq(SymbolList, 1, n)
  /\ chunk_size \in 0..MaxChunk
  /\ plpc = "trades"
  /\ rest = <<>>
  /\ spawned = <<>>

NextPlanner ==
  \/ PlanTradesPanics
  \/ PlanTradesStart
  \/ SpawnTradesRunner
  \/ PlanBooksStart
  \/ SpawnBookRunner
  \/ PlanDone

SpecPlanner == InitPlanner /\ [][NextPlanner]_vars

\* ===================================================================
\* Adapters: parse_message on one shared instance
\* ===================================================================

\* The adapters of the model: the two that buffer trades, the one whose
\* parse_message returns Option<MarketMessage>, and one of those that keep no
\* state and return ParseResult.
AdapterKinds == {"kraken", "bitfinex", "gateio", "binance"}

\* VecDeque::pop_front / pop_back on a non-empty buffer: the item and what is left.
PopBack(buf) == [item |-> buf[Len(buf)], rest |-> SubSeq(buf, 1, Len(buf) - 1)]
PopFront(buf) == [item |-> Head(buf), rest |-> Tail(buf)]

\* The chanIds Bitfinex hands out: a chanId belongs to the connection it was
\* acknowledged on, so two connections can be given the same one.
ChanIds == 1..NumConns

\* HashMap::insert(k, v) and HashMap::get(&k) on the entries of chan_map.
Insert(map, k, v) == {m \in map : m.chan # k} \cup {[chan |-> k, symbol |-> v]}
Get(map, k) == {m.symbol : m \in {e \in map : e.chan = k}}

\* The frames the venue can send next on connection c: text that is no JSON, a
\* heartbeat or acknowledgement, or a trade frame (on Bitfinex the `subscribed`
\* event of the connection's channel, with the chanId the venue gives it,
\* comes before the trades of that chanId).
FramesFor(c) ==
  {RawFrame("garbage", calls + 1, 0, 0), RawFrame("control", calls + 1, 0, 0)}
  \cup (CASE akind = "kraken" -> {RawFrame("trades", calls + 1, n, 0) : n \in 1..MaxBatch}
          [] akind = "bitfinex" ->
               IF acked[c] # 0
                 THEN {RawFrame("trades", calls + 1, 1, acked[c])}
                 ELSE {RawFrame("subscribed", calls + 1, 0, k) : k \in ChanIds}
          [] OTHER -> {RawFrame("trades", calls + 1, 1, 0)})

\* The trades a trade frame decodes to, in the order of its data array.
TradesOf(f) == [i \in 1..f.n |-> Trade(f.id, i)]

\* parse_message on connection c returns res (with trade t when it is a message).
Returns(c, f, res, t) ==
  /\ lastResult' = [lastResult EXCEPT ![c] = Outcome(f, res, t)]
  /\ emitted' = IF res \in {"Market", "Some"} THEN Append(emitted, t) ELSE emitted
  /\ apc' = [apc EXCEPT ![c] = "idle"]
  /\ aframe' = [aframe EXCEPT ![c] = NoFrame]

\* The channel of connection c: run_exchange spawns the Trades Runners and the
\* OrderBooks Runners of a venue with the same adapter.
ConnChannel(c) == IF c % 2 = 1 THEN "Trades" ELSE "OrderBooks"
\* The symbol slice of connection c.
ConnPairs(c) == Chunks(SubSeq(SymbolList, 1, NumConns * NumSymbols), NumSymbols)[c]

\* The Runner of connection c, connected, calls build_subscribe_message on the
\* shared adapter for its channel and symbols (before it reads any frame).
BuildSubscribeRecords(c, ch) ==
  /\ apc[c] = "idle"
  /\ subreq[c] = NoRequest
  /\ subreq' = [subreq EXCEPT ![c] = Request(ch, BuildSubscribeMessage(akind, ch, ConnPairs(c)))]
  /\ chan_map' = Insert(chan_map, c, ConnPairs(c)[1])
  /\ UNCHANGED <<runnerVars, metricVars, demo, poolVars, plannerVars, venueVars, akind,
                 trade_buffer, apc, aframe, acked, calls, decoded, emitted,
                 lastResult, senderVars>>
BuildSubscribe(c, ch) ==
  /\ apc[c] = "idle"
  /\ subreq[c] = NoRequest
  /\ subreq' = [subreq EXCEPT ![c] = Request(ch, BuildSubscribeMessage(akind, ch, ConnPairs(c)))]
  /\ UNCHANGED <<runnerVars, metricVars, demo, poolVars, plannerVars, venueVars, akind,
                 trade_buffer, chan_map, apc, aframe, acked, calls, decoded, emitted,
                 lastResult, senderVars>>

\* The Runner of connection c calls parse_message(frame).
Called(c, f) ==
  /\ apc[c] = "idle"
  /\ subreq[c] # NoRequest
  /\ calls < MaxCalls
  /\ f \in FramesFor(c)
  /\ calls' = calls + 1
  /\ acked' = [acked EXCEPT ![c] = IF f.kind = "subscribed" THEN f.chan ELSE @]

\* Top of parse_message of the buffering adapters: a buffered trade is
\* returned at once and `raw` is not looked at; otherwise `raw` is decoded
\* next (the guard of the buffer is released in between).
EmitBufferedFirst(c, f) ==
  /\ Called(c, f)
  /\ IF trade_buffer # <<>>
       THEN /\ trade_buffer' = PopFront(trade_buffer).rest
            /\ Returns(c, f, "Market", PopFront(trade_buffer).item)
       ELSE /\ apc' = [apc EXCEPT ![c] = "decode"]
            /\ aframe' = [aframe EXCEPT ![c] = f]
            /\ UNCHANGED <<trade_buffer, lastResult, emitted>>
  /\ UNCHANGED <<runnerVars, metricVars, demo, poolVars, plannerVars, venueVars, subreq, akind, chan_map,
                 decoded, senderVars>>

KrakenParse(c, f) == akind = "kraken" /\ EmitBufferedFirst(c, f)

\* KrakenV2Adapter::parse_message after the buffer check: from_str, the
\* control checks, then under one guard every trade of the frame is pushed
\* and the front of the buffer is popped and returned.
KrakenDecode(c) ==
  /\ akind = "kraken"
  /\ apc[c] = "decode"
  /\ LET f == aframe[c] IN
       CASE f.kind = "garbage" ->
              /\ Returns(c, f, "Error", NoTrade)
              /\ UNCHANGED <<trade_buffer, decoded>>
         [] f.kind = "trades" ->
              LET pushed == trade_buffer \o TradesOf(f) IN
                /\ decoded' = decoded \o TradesOf(f)
                /\ trade_buffer' = PopFront(pushed).rest
                /\ Returns(c, f, "Market", PopFront(pushed).item)
         [] OTHER ->
              /\ Returns(c, f, "Control", NoTrade)
              /\ UNCHANGED <<trade_buffer, decoded>>
  /\ UNCHANGED <<runnerVars, metricVars, demo, poolVars, plannerVars, venueVars, subreq, akind, chan_map,
                 acked, calls, senderVars>>

BitfinexParse(c, f) == akind = "bitfinex" /\ EmitBufferedFirst(c, f)

\* BitfinexAdapter::parse_message after the buffer check: from_str; a
\* `subscribed` event is recorded in chan_map with the symbol it names (the
\* first symbol of the connection it arrives on); a trade update of a mapped
\* chanId is pushed into the buffer (the guard is released after the push).
BitfinexDecode(c) ==
  /\ akind = "bitfinex"
  /\ apc[c] = "decode"
  /\ LET f == aframe[c] IN
       CASE f.kind = "garbage" ->
              /\ Returns(c, f, "Error", NoTrade)
              /\ UNCHANGED <<trade_buffer, decoded, chan_map>>
         [] f.kind = "subscribed" ->
              /\ chan_map' = Insert(chan_map, f.chan, ConnPairs(c)[1])
              /\ Returns(c, f, "Control", NoTrade)
              /\ UNCHANGED <<trade_buffer, decoded>>
         [] f.kind = "trades" /\ Get(chan_map, f.chan) # {} ->
              /\ trade_buffer' = Append(trade_buffer, Trade(f.id, 1))
              /\ decoded' = Append(decoded, Trade(f.id, 1))
              /\ apc' = [apc EXCEPT ![c] = "pop"]
              /\ UNCHANGED <<chan_map, aframe, lastResult, emitted>>
         [] OTHER ->
              /\ Returns(c, f, "Control", NoTrade)
              /\ UNCHANGED <<trade_buffer, decoded, chan_map>>
  /\ UNCHANGED <<runnerVars, metricVars, demo, poolVars, plannerVars, venueVars, subreq, akind, acked,
                 calls, senderVars>>

\* ... and the buffer is locked again: pop_front().map(Market).unwrap_or(Control).
BitfinexPop(c) ==
  /\ akind = "bitfinex"
  /\ apc[c] = "pop"
  /\ IF trade_buffer # <<>>
       THEN /\ trade_buffer' = PopFront(trade_buffer).rest
            /\ Returns(c, aframe[c], "Market", PopFront(trade_buffer).item)
       ELSE /\ trade_buffer' = trade_buffer
            /\ Returns(c, aframe[c], "Control", NoTrade)
  /\ UNCHANGED <<runnerVars, metricVars, demo, poolVars, plannerVars, venueVars, subreq, akind, chan_map,
                 acked, calls, decoded, senderVars>>

\* parse_message of an adapter without state (binance, okx, ...): from_str
\* fails => Error; no data => Control; a trade => Market.
StatelessParse(c, f) ==
  /\ akind = "binance"
  /\ Called(c, f)
  /\ CASE f.kind = "garbage" ->
            /\ Returns(c, f, "Error", NoTrade)
            /\ decoded' = decoded
       [] f.kind = "trades" ->
            /\ Returns(c, f, "Market", Trade(f.id, 1))
            /\ decoded' = Append(decoded, Trade(f.id, 1))
       [] OTHER ->
            /\ Returns(c, f, "Control", NoTrade)
            /\ decoded' = decoded
  /\ UNCHANGED <<runnerVars, metricVars, demo, poolVars, plannerVars, venueVars, subreq, akind,
                 trade_buffer, chan_map, senderVars>>

\* GateIoAdapter::parse_message returns Option<MarketMessage>:
\* from_str(raw).ok()? and every other miss => None; an update => Some.
GateioParse(c, f) ==
  /\ akind = "gateio"
  /\ Called(c, f)
  /\ IF f.kind = "trades"
       THEN /\ Returns(c, f, "Some", Trade(f.id, 1))
            /\ decoded' = Append(decoded, Trade(f.id, 1))
       ELSE /\ Returns(c, f, "None", NoTrade)
            /\ decoded' = decoded
  /\ UNCHANGED <<runnerVars, metricVars, demo, poolVars, plannerVars, venueVars, subreq, akind,
                 trade_buffer, chan_map, senderVars>>

\* A new adapter instance (get_adapter / ...Adapter::new()) shared by the
\* connections of its venue, none of which has received a frame.
InitAdapter ==
  /\ RunnersIdle
  /\ MetricsZero
  /\ SenderIdle
  /\ demo = TRUE
  /\ PoolIdle(1)
  /\ PlannerIdle
  /\ VenueIdle
  /\ subreq = [c \in Conns |-> NoRequest]
  /\ akind \in AdapterKinds
  /\ trade_buffer = <<>> /\ chan_map = {}
  /\ apc = [c \in Conns |-> "idle"]
  /\ aframe = [c \in Conns |-> NoFrame]
  /\ acked = [c \in Conns |-> 0]
  /\ calls = 0 /\ decoded = <<>> /\ emitted = <<>>
  /\ lastResult = [c \in Conns |-> Outcome(NoFrame, "none", NoTrade)]

NextAdapter ==
  \/ \E c \in Conns : BuildSubscribe(c, ConnChannel(c))
  \/ \E c \in Conns : \E f \in FramesFor(c) : KrakenParse(c, f)
  \/ \E c \in Conns : KrakenDecode(c)
  \/ \E c \in Conns : \E f \in FramesFor(c) : BitfinexParse(c, f)
  \/ \E c \in Conns : BitfinexDecode(c)
  \/ \E c \in Conns : BitfinexPop(c)
  \/ \E c \in Conns : \E f \in FramesFor(c) : StatelessParse(c, f)
  \/ \E c \in Conns : \E f \in FramesFor(c) : GateioParse(c, f)

SpecAdapter == InitAdapter /\ [][NextAdapter]_vars

\* ===================================================================
\* Claims
\* ===================================================================

\* A step of Runner r in which a subscribe write failed: the session leaves
\* Subscribing with fewer requests written than a complete session has.
SubscribeFailedStep(r) ==
  /\ rpc[r] = "subscribe"
  /\ rpc'[r] # "subscribe"
  /\ subIdx'[r] < NumRequests(r)
\* A step in which connect_async of Runner r failed.
ConnectFailedStep(r) == rpc[r] = "connect" /\ rpc'[r] \notin {"connect", "subscribe"}
\* A step in which the Streaming state of Runner r ended.
StreamingEndedStep(r) == rpc[r] = "stream" /\ rpc'[r] # "stream"
\* The per-symbol requests of the first n symbols of Runner r, in configured order.
SymbolRequests(r, n) == [i \in 1..n |-> SubscribeRequest(r, <<Pairs(r)[i]>>)]

\* C1: a Runner task has no terminal state: whatever connect results,
\* subscribe-send results, frames, close frames and read errors it has seen,
\* run_ws_loop has not returned.
C1_NoTerminalState == \A r \in Runners : rpc[r] # "returned"

\* C2: when a subscribe write fails (batched or per-symbol policy) the Runner
\* goes to the fixed reconnect delay, from which it connects again, and the
\* other Runners are left as they were.
C2_SubscribeFailureReconnects ==
  [][\A r \in Runners :
       SubscribeFailedStep(r) =>
         /\ rpc'[r] = "delay"
         /\ rsleep'[r] = ReconnectDelaySecs
         /\ \A o \in Runners \ {r} : rpc'[o] = rpc[o] /\ subIdx'[o] = subIdx[o]]_vars

\* C3: a failed connect, and a close frame or read error that ends Streaming,
\* put the Runner into a sleep of exactly 5 seconds; a connect attempt is
\* only ever started from a fully elapsed sleep (or at task start), and no
\* Runner stays in the sleep for ever: it leaves it, which by the second
\* conjunct is a new connect attempt.
C3_FixedDelayThenReconnect ==
  /\ [][\A r \in Runners :
          (ConnectFailedStep(r) \/ StreamingEndedStep(r)) =>
            rpc'[r] = "delay" /\ rsleep'[r] = ReconnectDelaySecs]_vars
  /\ [][\A r \in Runners :
          (rpc[r] # "connect" /\ rpc'[r] = "connect") =>
            rpc[r] = "delay" /\ rsleep[r] = 0]_vars
  /\ [][\A r \in Runners :
          (rpc[r] = "delay" /\ rpc'[r] = "delay" /\ rsleep'[r] # rsleep[r]) =>
            rsleep'[r] = rsleep[r] - 1]_vars
  /\ \A r \in Runners : []<>(rpc[r] # "delay")

\* C3 witness: after a session that streamed has ended, every Runner has
\* failed, has slept its whole delay and is about to connect again.
C3_Witness ==
  /\ trades_received > 0
  /\ \A r \in Runners : rpc[r] = "delay" /\ rsleep[r] = 0

\* C4: on a per-symbol venue a session writes one request per symbol in
\* configured order, stops at the first failed write, and never enters
\* Streaming on a connection whose subscribe sequence was cut short.
C4_PerSymbolAbortSkipsStreaming ==
  \A r \in Runners :
    PerSymbol(r) =>
      /\ subIdx[r] <= Len(Pairs(r))
      /\ rpc[r] \in {"subscribe", "stream"} => sessionSubs[r] = SymbolRequests(r, subIdx[r])
      /\ rpc[r] = "stream" => subIdx[r] = Len(Pairs(r))

\* A step in which MasterSender::send of Runner r ran try_send on a full queue.
SendOnFullStep(r) ==
  /\ hp[r] = "send_try"
  /\ hp'[r] # "send_try"
  /\ rxOpen /\ sendTx[r] = gen /\ Len(chanq) >= QueueCap

\* C5: send never waits for queue space: a send that holds the lock can always
\* complete, on a full queue it returns success (handle_parsed counts the
\* message as forwarded) without enqueuing, and the queue never holds more
\* than its bound.
C5_SendNeverBlocksOnFullQueue ==
  /\ [](Len(chanq) <= QueueCap)
  /\ [](\A r \in Producers : hp[r] = "send_try" => ENABLED SendTry(r))
  /\ [][\A r \in Producers :
          SendOnFullStep(r) =>
            /\ chanq' = chanq
            /\ hp'[r] = "idle"
            /\ trades_forwarded' = trades_forwarded + 1
            /\ send_errors' = send_errors]_vars

\* C5 witness: a message was refused by a full queue while the queue is at
\* its bound.
C5_Witness == droppedIds # {} /\ Len(chanq) = QueueCap

\* C6: a send on a saturated queue returns success, increments a drop
\* counter, and the message is never transmitted.
C6_FullQueueDropIsCounted ==
  /\ [](droppedIds \cap transmitted = {})
  /\ [][\A r \in Producers :
          SendOnFullStep(r) =>
            /\ hp'[r] = "idle"
            /\ dropped_messages' = dropped_messages + 1]_vars

\* C7: a data message is written only on the link that consumes the generation
\* it was enqueued on; what was still queued when a link terminated (or its
\* connect failed) is never written on a later link.
C7_NoDeliveryAcrossGenerations ==
  /\ \A i \in 1..Len(wire) : wire[i].kind = "data" => wire[i].gen = wire[i].link
  /\ wpc = "write_data" => curWrite.gen = gen
  /\ rxOpen => \A i \in 1..Len(chanq) : chanq[i].gen = gen
  /\ stranded \cap transmitted = {}

\* C7 witness: messages were stranded in an earlier generation and a later
\* link has written a data message.
C7_Witness ==
  /\ stranded # {}
  /\ \E i \in 1..Len(wire) : wire[i].kind = "data" /\ wire[i].link > 1

\* C8: the queue handle is swapped atomically with respect to send: a send
\* that holds the handle targets the generation that is current, so no send
\* enqueues on a generation that has been replaced.
C8_SendTargetsCurrentGeneration ==
  \A r \in Producers : hp[r] = "send_try" => sendTx[r] = handle

\* C8 witness: generation 1 has been replaced and a send holds the handle of
\* the generation that replaced it.
C8_Witness ==
  \E r \in Producers : hp[r] = "send_try" /\ handle > 1 /\ sendTx[r] = handle

\* C9: the first frame written on every link is the login string
\* key=<KEY>&role=collector; no data message and no heartbeat precedes it.
C9_LoginFirstOnEveryLink ==
  /\ wire # <<>> =>
       /\ wire[1].kind = "login"
       /\ wire[1].text = <<"key=", ApiKey, "&role=collector">>
  /\ wpc \in {"top", "select", "write_data", "write_ping"} => wire # <<>>
  /\ \A i \in 2..Len(wire) : wire[i].kind \in {"data", "ping"}

\* C9 witness: a reconnected link carries its login followed by a data message.
C9_Witness ==
  /\ Len(wire) >= 2
  /\ wire[1].link > 1
  /\ \E i \in 2..Len(wire) : wire[i].kind = "data"

\* C10: once the reader of a link has seen EOF or a read error, the signal
\* stays pending for the writer until the link is terminated, whatever the
\* writer was doing when it was raised.
C10_LivenessSignalNeverLost ==
  (rdr = "ended" /\ wpc \in {"top", "select", "write_data", "write_ping"}) => notified

\* A step in which the Sender's link attempt terminated: connect_async
\* failed, the login write failed, a data or heartbeat write failed, or the
\* writer took the liveness signal.
LinkTerminatedStep ==
  /\ (wpc = "connect" \/ LinkUp)
  /\ ~(wpc' = "connect" \/ LinkUp')

\* C11: every termination of the link (connect failure, login failure, write
\* failure, liveness loss) puts the Sender into a backoff of exactly 30
\* seconds with its Receiver dropped; the timer only runs down from its full
\* length and the backoff is left only when it has fully elapsed, and only towards creating a new channel; the generation
\* changes only there, by one, to an empty channel; a connect attempt is
\* started only right after that channel's handle was installed; the loop has
\* no exit position, and a Sender in backoff does reach a new connect attempt.
C11_BackoffThenNewGenerationForever ==
  /\ [][LinkTerminatedStep =>
          wpc' = "backoff" /\ bsleep' = BackoffSecs /\ ~rxOpen']_vars
  /\ [][(wpc = "backoff" /\ wpc' = "backoff" /\ bsleep' # bsleep) =>
          bsleep = BackoffSecs /\ bsleep' = 0]_vars
  /\ [][(wpc = "backoff" /\ wpc' # "backoff") =>
          bsleep = 0 /\ wpc' = "create"]_vars
  /\ [][gen' # gen =>
          wpc = "create" /\ gen' = gen + 1 /\ chanq' = <<>> /\ rxOpen']_vars
  /\ [][(wpc = "create" /\ wpc' # "create") => gen' = gen + 1]_vars
  /\ [][(wpc # "connect" /\ wpc' = "connect") =>
          wpc = "assign" /\ handle' = gen' /\ handle' # handle /\ rxOpen' /\ chanq' = <<>>]_vars
  /\ [](wpc \in {"create", "lock", "assign", "connect", "login", "top", "select",
                  "write_data", "write_ping", "backoff"})
  /\ (wpc = "backoff" /\ gen < MaxGen) ~> (wpc = "connect")

\* C11 witness: a link that carried traffic was terminated with messages still
\* queued, the backoff has elapsed, and the Sender is connecting again on the
\* generation that replaced the terminated one.
C11_Witness ==
  /\ wpc = "connect"
  /\ gen > 1
  /\ handle = gen
  /\ stranded # {}
  /\ transmitted # {}

\* A step in which MasterPool::send returned Err("All master connections busy").
PoolGaveUpStep == ppc = "sleep" /\ ppc' = "idle"

\* C12: when every delivery attempt of a message is rejected, the Pool makes
\* exactly 3 attempts, each on a Sender drawn from all of its Senders (any of
\* them can be drawn at every attempt), then returns an error that is counted
\* and leaves the Pool usable; the message is buffered on no Sender.
C12_ThreeAttemptsThenNonFatalError ==
  /\ [](Len(picks) <= PoolAttempts)
  /\ []((ppc = "pick" /\ senders > 0) => \A s \in 1..senders : ENABLED PoolAttempt(s))
  /\ [](presult = "err" => ppc # "panicked")
  /\ [][PoolGaveUpStep =>
          /\ Len(picks) = PoolAttempts
          /\ \A i \in 1..Len(picks) : picks[i] \in 1..senders
          /\ presult' = "err"
          /\ send_errors' = send_errors + 1
          /\ pmsg \notin Enqueued']_vars
  /\ []((presult = "err" /\ ppc = "idle" /\ trades_received < MaxMsgs) => ENABLED PoolSend)
  /\ [][(ppc = "sleep" /\ Len(picks) < PoolAttempts) => ppc' \in {"sleep", "pick"}]_vars

\* C12 witness: a message was given up after attempts on two different
\* Senders, and the Pool has delivered a later message.
C12_Witness ==
  /\ send_errors > 0
  /\ presult = "ok"
  /\ Len(picks) = PoolAttempts
  /\ \E i, j \in 1..Len(picks) : picks[i] # picks[j]

\* C13: when a Sender fails to accept a message the Pool retries once, on a
\* Sender other than the one that just failed, and then drops the message and
\* counts the drop (stated for a Pool of at least two Senders, where another
\* Sender exists).
C13_OneRetryOnDifferentSender ==
  /\ [][(PoolGaveUpStep /\ senders >= 2) =>
          /\ Len(picks) = 2
          /\ picks[2] # picks[1]
          /\ dropped_messages' = dropped_messages + 1]_vars
  /\ [](senders >= 2 => \A i \in 2..Len(picks) : picks[i] # picks[i - 1])

\* C14: in demo mode the Pool holds no Sender and no connection is opened,
\* whatever cfg.master.connections is; every send returns Ok and its message
\* goes to the local sink and nowhere else.
C14_DemoModeTouchesNoNetwork ==
  /\ demo =>
       /\ senders = 0
       /\ ~netOpened
       /\ \A s \in Slots : ~sopen[s] /\ sq[s] = <<>>
       /\ ppc = "idle" /\ picks = <<>>
       /\ presult = (IF trades_received = 0 THEN "none" ELSE "ok")
       /\ sink = [i \in 1..trades_received |-> i]
       /\ trades_forwarded = trades_received
       /\ send_errors = 0 /\ dropped_messages = 0
  /\ ~demo => sink = <<>>

\* C14 witness: a demo Pool configured with several connections has accepted
\* several messages.
C14_Witness == demo /\ count >= 2 /\ Len(sink) >= 2

\* The Runners of one channel among those spawned, in spawn order.
SpawnedOn(ch) == SelectSeq(spawned, LAMBDA x : x.channel = ch)
\* ceil(n / k)
CeilDiv(n, k) == (n + k - 1) \div k

\* C15: for chunk size k >= 1 and n configured trade symbols the Planner
\* spawns, one after the other, the Runners of the contiguous slices
\* i*k .. min((i+1)*k, n)-1 (0-based) in configured order, ceil(n/k) of them when
\* the Trades loop is over: every symbol is on exactly one stream and only the
\* last stream may be smaller than k.
C15_TradesChunkedContiguously ==
  chunk_size >= 1 =>
    LET n == Len(pairsTrades)
        k == chunk_size
        t == SpawnedOn("Trades")
    IN /\ \A i \in 1..Len(t) :
            t[i].pairs = [j \in 1..(Min(i * k, n) - (i - 1) * k) |->
                            pairsTrades[(i - 1) * k + j]]
       /\ Len(t) <= CeilDiv(n, k)
       /\ plpc = "trades_loop" => Len(rest) = n - Min(Len(t) * k, n)
       /\ plpc \in {"books_loop", "done"} =>
            /\ Len(t) = CeilDiv(n, k)
            /\ \A i \in 1..(Len(t) - 1) : Len(t[i].pairs) = k
            /\ \A j \in 1..n :
                 Cardinality({<<i, q>> \in (1..Len(t)) \X (1..k) :
                                q <= Len(t[i].pairs) /\ t[i].pairs[q] = pairsTrades[j]}) = 1

\* C15 witness: 9 trade symbols with chunk size 5 have been planned as two
\* streams of 5 and 4 symbols.
C15_Witness ==
  /\ plpc = "done"
  /\ Len(pairsTrades) = 9 /\ chunk_size = 5
  /\ Len(SpawnedOn("Trades")) = 2
  /\ Len(SpawnedOn("Trades")[1].pairs) = 5
  /\ Len(SpawnedOn("Trades")[2].pairs) = 4

\* C16: when the Planner has finished with a venue, the OrderBooks channel has
\* exactly one Runner per configured order-book symbol, each with that one
\* symbol, in configured order, for every value of the chunking configuration.
C16_OneBookRunnerPerSymbol ==
  plpc \in {"done", "panicked"} =>
    SpawnedOn("OrderBooks") =
      [i \in 1..Len(pairsBooks) |-> RunnerSpec("OrderBooks", <<pairsBooks[i]>>)]

\* C17: every subscribe request a Runner writes, in its first session and in
\* every session after a reconnect, carries the channel type and the symbols
\* of the chunk the Runner was spawned with, in configured order: the whole
\* chunk on a batched venue, its next symbol on a per-symbol venue.
C17_SessionsKeepConnectionIdentity ==
  \A r \in Runners :
    LET chunk == SubSeq(SymbolList, (r - 1) * NumSymbols + 1, r * NumSymbols) IN
      /\ Len(sessionSubs[r]) = subIdx[r]
      /\ \A i \in 1..Len(sessionSubs[r]) :
           /\ sessionSubs[r][i].channel = "Trades"
           /\ sessionSubs[r][i].venue = Venue(r)
           /\ sessionSubs[r][i].symbols =
                (IF Venue(r) \in {"bitfinex", "bitstamp"} THEN <<chunk[i]>> ELSE chunk)

\* C17 witness: a trade was received in an earlier session, every Runner has
\* since left Streaming, slept and connected again, and a per-symbol Runner is
\* in the middle of the subscribe sequence of its new session.
C17_Witness ==
  /\ trades_received > 0
  /\ \A r \in Runners : rpc[r] = "subscribe"
  /\ \E r \in Runners : PerSymbol(r) /\ subIdx[r] = 1 /\ Len(sessionSubs[r]) = 1

\* C18: whatever the adapter and whatever its state (its trade buffer empty
\* or not), a parse_message call on text that is no JSON returns Error, never
\* a message, Control or anything else.
C18_MalformedInputYieldsError ==
  \A c \in Conns :
    lastResult[c].frame.kind = "garbage" => lastResult[c].result = "Error"

\* C19: a parse call returns at most one message, and the messages come out
\* in the order they were decoded: the trades of one frame are decoded
\* together in the order of the frame, and what has been returned is always
\* the front part of what has been decoded, so no trade of a later frame
\* overtakes one of an earlier frame.
C19_OneMessagePerCallInFifoOrder ==
  /\ [][Len(emitted') <= Len(emitted) + 1]_vars
  /\ [](Len(emitted) <= Len(decoded) /\ emitted = SubSeq(decoded, 1, Len(emitted)))
  /\ [](\A i, j \in 1..Len(decoded) :
          (i < j /\ decoded[i].frame = decoded[j].frame) =>
            /\ decoded[j].idx - decoded[i].idx = j - i
            /\ \A m \in i..j : decoded[m].frame = decoded[i].frame)
  /\ [](trade_buffer = SubSeq(decoded, Len(emitted) + 1, Len(decoded)))

\* C19 witness: on the batching adapter both trades of one frame and then a
\* trade of a later frame have been returned, by three parse calls.
C19_Witness ==
  /\ akind = "kraken"
  /\ Len(emitted) >= 3
  /\ emitted[1].frame = emitted[2].frame
  /\ emitted[3].frame # emitted[1].frame

\* C20: under every interleaving of the parse calls of the connections that
\* share an adapter, a completed call on a valid trade frame has returned a
\* message, the trades of the frame have been taken in (they are returned or
\* still buffered), and no trade has been returned twice.
C20_ConcurrentParseLosesNoTrade ==
  /\ \A c \in Conns :
       lastResult[c].frame.kind = "trades" =>
         /\ lastResult[c].result \in {"Market", "Some"}
         /\ \A i \in 1..lastResult[c].frame.n :
              \E m \in 1..Len(decoded) : decoded[m] = Trade(lastResult[c].frame.id, i)
  /\ \A i, j \in 1..Len(emitted) : emitted[i] = emitted[j] => i = j

\* A step in which handle_parsed counted a parse error.
ParseErrorStep == parse_errors' # parse_errors

\* C21: a frame whose parse result is Error raises parse_errors by exactly
\* one and changes nothing else: no message is received, forwarded or handed
\* to the Pool or a Sender for it, no send error or drop is counted, and every
\* Runner is where it was, the one that got the frame still Streaming with no
\* send in progress, so that it takes its next frame.
C21_ParseErrorCountedStreamContinues ==
  /\ [][ParseErrorStep =>
          /\ parse_errors' = parse_errors + 1
          /\ \E r \in Runners : rpc[r] = "stream" /\ rpc'[r] = "stream" /\ hp'[r] = "idle"
          /\ UNCHANGED <<runnerVars, trades_received, trades_forwarded, send_errors,
                         dropped_messages, ws_connections_active, poolVars, senderVars>>]_vars
  /\ [](\A r \in Runners :
          (rpc[r] = "stream" /\ hp[r] = "idle" /\ trades_received < MaxMsgs) =>
            ENABLED HandleParsedMarket(r))

\* C21 witness: a parse error has been counted, every Runner is Streaming and
\* messages have been received and forwarded.
C21_Witness ==
  /\ parse_errors > 0
  /\ trades_forwarded > 0
  /\ \A r \in Runners : rpc[r] = "stream"

\* A step in which Runner r failed: its connect, a subscribe write, or its
\* Streaming ended (close frame, read error).
RunnerFailedStep(r) ==
  ConnectFailedStep(r) \/ SubscribeFailedStep(r) \/ StreamingEndedStep(r)

\* C23: a connect failure, subscribe failure, close frame or read error of one
\* Runner leaves every other Runner as it was: its position in the lifecycle,
\* its sleep, its adapter, the requests of its session (channel type and
\* symbols) and its progress in them.
C23_FailureLeavesSiblingsAlone ==
  [][\A r \in Runners :
       RunnerFailedStep(r) =>
         \A o \in Runners \ {r} :
           /\ rpc'[o] = rpc[o]
           /\ rsleep'[o] = rsleep[o]
           /\ hp'[o] = hp[o]
           /\ names'[o] = names[o]
           /\ subIdx'[o] = subIdx[o]
           /\ sessionSubs'[o] = sessionSubs[o]]_vars

\* C23 witness: a Runner is out of its session after a failure while another
\* Runner, fully subscribed, is Streaming and has received messages.
C23_Witness ==
  \E r, o \in Runners :
    /\ r # o
    /\ rpc[r] \in {"delay", "returned"}
    /\ rpc[o] = "stream" /\ subIdx[o] = NumRequests(o)
    /\ trades_received > 0

\* The Runners that hold an established connection.
Established == {r \in Runners : rpc[r] \in {"subscribe", "stream"}}

\* C29: ws_connections_active is the number of Runners that hold an
\* established connection, on every path (a failed subscribe included), so it
\* never wraps around below zero.
C29_GaugeCountsEstablishedConnections ==
  ws_connections_active = Cardinality(Established)

\* The ids of the messages a queue holds.
QueuedIds == {chanq[i].id : i \in 1..Len(chanq)}
\* A step in which Runner r took a new Market message into handle_parsed.
TakesMessageStep(r) == curMsg'[r] # curMsg[r] /\ curMsg'[r] # 0

\* C22: a Runner handles one frame at a time, in arrival order: it takes a new
\* message only when the handling of the one before, its Pool send and every
\* retry included, is over; the new message is younger than every message that
\* was queued, written, dropped or stranded before; and while a send or a
\* retry is in progress the Runner cannot take its next frame.
C22_FramesHandledInArrivalOrder ==
  /\ [][\A r \in Producers :
          TakesMessageStep(r) =>
            /\ hp[r] = "idle" /\ curMsg[r] = 0
            /\ hp'[r] = "send_lock" /\ attempt'[r] = 0
            /\ curMsg'[r] = trades_received'
            /\ \A i \in QueuedIds \cup transmitted \cup droppedIds \cup stranded :
                 i < curMsg'[r]]_vars
  /\ [](\A r \in Producers : (hp[r] = "idle") <=> (curMsg[r] = 0))
  /\ [](\A r \in Producers : hp[r] # "idle" => ~ENABLED HandleParsedMarket(r))
  /\ [](\A i, j \in 1..Len(chanq) :
          (i < j /\ Cardinality(Producers) = 1) => chanq[i].id < chanq[j].id)

\* C22 witness: a Runner is retrying the send of a message after earlier
\* messages of the run were handled.
C22_Witness ==
  \E r \in Producers : curMsg[r] >= 2 /\ attempt[r] >= 1 /\ hp[r] = "send_try"

\* A step in which MasterSender::send of Runner r ran try_send on a channel
\* that has no consumer.
SendOnClosedStep(r) ==
  /\ hp[r] = "send_try"
  /\ hp'[r] # "send_try"
  /\ ~(rxOpen /\ sendTx[r] = gen)

RunnerGaveUpStep(r) == hp[r] = "pool_sleep" /\ hp'[r] = "idle"

\* C28: when MasterPool::send returns its error, send_errors and
\* dropped_messages each go up by exactly one (and only then, so once per
\* message), the message is not counted as forwarded, and the Runner is still
\* Streaming with no send in progress, so that it takes its next frame.
C28_FailedSendStaysInRunner ==
  /\ [][\A r \in Producers :
          RunnerGaveUpStep(r) =>
            /\ send_errors' = send_errors + 1
            /\ dropped_messages' = dropped_messages + 1
            /\ trades_forwarded' = trades_forwarded
            /\ rpc'[r] = "stream"
            /\ curMsg'[r] = 0]_vars
  /\ [][(send_errors' # send_errors \/ dropped_messages' # dropped_messages) =>
          \E r \in Producers : RunnerGaveUpStep(r) /\ attempt[r] = PoolAttempts - 1]_vars
  /\ [](\A r \in Producers : rpc[r] = "stream")
  /\ [](\A r \in Producers :
          (hp[r] = "idle" /\ trades_received < MaxMsgs) => ENABLED HandleParsedMarket(r))

\* C28 witness: a send has failed and the same run handles a later message.
C28_Witness ==
  /\ send_errors > 0
  /\ dropped_messages = send_errors
  /\ \E r \in Producers : curMsg[r] >= 2 /\ hp[r] # "idle"

\* A step in which build_subscribe_message returned a request to connection c.
BuiltStep(c) == subreq'[c] # subreq[c]

\* C25: a build_subscribe_message call changes nothing but its caller's
\* result: the adapter's trade buffer and channel map, the trades decoded and
\* returned, the parse calls in progress on other connections, the process-wide
\* counters and the cached endpoint, the Pool and the Sender are as before;
\* the result is the translation of the adapter, the channel and the symbols.
C25_BuildSubscribeIsPure ==
  [][\A c \in Conns :
       BuiltStep(c) =>
         /\ UNCHANGED <<akind, trade_buffer, chan_map, decoded, emitted, calls, apc,
                        aframe, acked, lastResult>>
         /\ UNCHANGED <<metricVars, venueVars, poolVars, senderVars, runnerVars>>
         /\ \A o \in Conns \ {c} : subreq'[o] = subreq[o]
         /\ \E ch \in {"Trades", "OrderBooks"} :
              subreq'[c] = Request(ch, BuildSubscribeMessage(akind, ch, ConnPairs(c)))]_vars

\* C25 witness: a connection has built its request on an adapter that holds
\* state (a buffered trade or a mapped channel) and has not parsed a frame yet.
C25_Witness ==
  \E c \in Conns :
    /\ subreq[c] # NoRequest
    /\ lastResult[c].result = "none" /\ apc[c] = "idle"
    /\ trade_buffer # <<>> \/ chan_map # {}

\* C26: a ping frame received while Streaming is answered at once, within the
\* handling of that frame, by a pong with the payload of the ping (so before
\* any other frame is handled); the frame does not reach the adapter: no
\* message, parse error, send error or drop is counted for it and the adapter
\* is as before.
C26_PingAnsweredWithSamePayload ==
  /\ [][lastPing' # lastPing =>
          /\ lastPing'.ping \in PingPayloads
          /\ lastPing'.pong = lastPing'.ping
          /\ lastPing'.runner \in Runners
          /\ rpc[lastPing'.runner] = "stream" /\ rpc'[lastPing'.runner] = "stream"
          /\ UNCHANGED <<runnerVars, metricVars, adapterVars, poolVars, senderVars>>]_vars
  /\ [](lastPing.pong = lastPing.ping)

\* C26 witness: a ping was answered on a session on which messages and a
\* parse error have been handled and which is still Streaming.
C26_Witness ==
  /\ lastPing # NoPing
  /\ lastPing.pong = MaxPayload
  /\ trades_received > 0 /\ parse_errors > 0
  /\ rpc[lastPing.runner] = "stream"

\* The Runners that are fetching the KuCoin endpoint.
Fetching == {r \in Runners : rpc[r] = "fetch"}

\* C27: the KuCoin endpoint is fetched successfully at most once: at most one
\* Runner fetches at a time, the cell is set only by a successful fetch and
\* never changes afterwards, and once it is set no Runner fetches: every
\* KuCoin Runner that connects has the cached URL. A failed fetch leaves the
\* cell empty and sends its Runner into a sleep of exactly 10 seconds, from
\* whose end it resolves the endpoint again.
C27_KucoinEndpointFetchedOnce ==
  /\ [](kucoin_fetches <= 1)
  /\ [](Cardinality(Fetching) <= 1)
  /\ []((KUCOIN_WS_URL # "") <=> (kucoin_fetches = 1))
  /\ [](KUCOIN_WS_URL # "" => KUCOIN_WS_URL = KucoinUrl /\ Fetching = {})
  /\ [](\A r \in Runners :
          (Venue(r) = "kucoin" /\ rpc[r] \in {"connect", "subscribe", "stream"}) =>
            KUCOIN_WS_URL # "")
  /\ [][KUCOIN_WS_URL # "" =>
          KUCOIN_WS_URL' = KUCOIN_WS_URL /\ kucoin_fetches' = kucoin_fetches]_vars
  /\ [][\A r \in Runners :
          (rpc[r] = "fetch" /\ rpc'[r] # "fetch" /\ KUCOIN_WS_URL' = "") =>
            rpc'[r] = "delay" /\ rsleep'[r] = KucoinRetrySecs]_vars
  /\ [][\A r \in Runners :
          (Venue(r) = "kucoin" /\ rpc[r] = "delay" /\ rpc'[r] # "delay") =>
            rsleep[r] = 0 /\ rpc'[r] = "resolve"]_vars

\* C27 witness: after one successful fetch every KuCoin Runner is Streaming,
\* one of them in a session it opened after a sleep.
C27_Witness ==
  /\ kucoin_fetches = 1
  /\ \A r \in Runners : Venue(r) = "kucoin" /\ rpc[r] \in {"stream", "delay"}
  /\ \E r \in Runners : rpc[r] = "stream"
  /\ \E r \in Runners : rpc[r] = "delay" /\ rsleep[r] = ReconnectDelaySecs

\* The places in the requests of the session of Runner r that name symbol sym.
NamedAt(r, sym) ==
  {<<i, j>> \in (1..Len(sessionSubs[r])) \X (1..NumSymbols) :
     j <= Len(sessionSubs[r][i].named) /\ sessionSubs[r][i].named[j] = sym}

\* C30: on every venue, a stream that has connected and subscribed has named
\* each symbol of its chunk in exactly one place of its requests, and no
\* symbol of another stream's chunk: with the chunks being a partition of the
\* configured symbols, every configured trade symbol is subscribed on exactly
\* one stream of its venue.
C30_EverySymbolSubscribedOnce ==
  \A r \in Runners :
    rpc[r] = "stream" =>
      /\ \A i \in 1..Len(Pairs(r)) : Cardinality(NamedAt(r, Pairs(r)[i])) = 1
      /\ \A o \in Runners \ {r} :
           \A i \in 1..Len(Pairs(o)) : NamedAt(r, Pairs(o)[i]) = {}

\* The connections other than c have never called parse_message.
OnlyCaller(c) ==
  \A o \in Conns \ {c} : apc[o] = "idle" /\ lastResult[o].frame = NoFrame

\* C31: on the batching adapter driven by one connection no frame is skipped:
\* when a parse call on a valid trade frame has completed, every trade of
\* that frame has been decoded, so that it has been returned or waits in the
\* buffer for a later call; this also for a frame that arrived while the
\* buffer was not empty.
C31_NoFrameSkippedOnOneConnection ==
  \A c \in Conns :
    (akind = "kraken" /\ OnlyCaller(c) /\ lastResult[c].frame.kind = "trades") =>
      \A i \in 1..lastResult[c].frame.n :
        \E m \in 1..Len(decoded) : decoded[m] = Trade(lastResult[c].frame.id, i)

\* C35: MasterPool::send returns a value, Ok or Err, in every pool
\* configuration, a non-demo pool created with zero connections included: the
\* ingestion path never panics.
C35_PoolSendNeverPanics == ppc # "panicked"

\* MasterPool::send (inside handle_parsed) is running: it is drawing a Sender
\* or sleeping between two attempts.
PoolSendRunning == ppc \in {"pick", "sleep"}

\* C33: the throughput counters stay consistent: at every moment
\* trades_forwarded + dropped_messages <= trades_received and
\* send_errors <= trades_received, and whenever no handle_parsed call is in
\* progress trades_received = trades_forwarded + dropped_messages and
\* send_errors = dropped_messages.
C33_ThroughputCountersConsistent ==
  /\ trades_forwarded + dropped_messages <= trades_received
  /\ send_errors <= trades_received
  /\ ~PoolSendRunning =>
       /\ trades_received = trades_forwarded + dropped_messages
       /\ send_errors = dropped_messages

\* The Sender is in the first pass of its reconnect loop and connect_async
\* has not yet returned: its link has never been established.
NeverLinked ==
  \/ gen = 0
  \/ gen = 1 /\ wpc \in {"lock", "assign", "connect"}

\* C34: as long as the Sender's link has never been established, a send has
\* not gone past its wait for the first connect: it holds no queue handle and
\* no message has been enqueued.
C34_SendWaitsForFirstConnect ==
  NeverLinked =>
    /\ chanq = <<>>
    /\ \A r \in Runners : hp[r] # "send_try"

\* A step in which the writer has written a data message on its link.
DataWrittenStep ==
  /\ Len(wire') = Len(wire) + 1
  /\ wire'[Len(wire')].kind = "data"

\* C32: no message is transmitted more than once. A message the Pool is still
\* delivering (an attempt is to come or the Pool sleeps after a failed one) is
\* enqueued nowhere and was never written; a queue holds a message once; a
\* message that was dequeued or written is in no queue; and the writer never
\* writes a message that was written before, on this link or an earlier one.
C32_NoMessageTransmittedTwice ==
  /\ [](\A i, j \in 1..Len(chanq) : chanq[i].id = chanq[j].id => i = j)
  /\ [](\A i \in 1..Len(chanq) :
          chanq[i].id \notin transmitted /\ chanq[i].id # curWrite.id)
  /\ [](curWrite # NoMsg => curWrite.id \notin transmitted)
  /\ [](\A r \in Producers :
          hp[r] # "idle" =>
            /\ curMsg[r] \notin transmitted \cup {curWrite.id}
            /\ \A i \in 1..Len(chanq) : chanq[i].id # curMsg[r])
  /\ [][DataWrittenStep => wire'[Len(wire')].id \notin transmitted]_vars

\* C32 witness: messages have been written, the link has been replaced, and
\* the Pool is retrying a message after an attempt that enqueued nothing.
C32_Witness ==
  /\ transmitted # {}
  /\ gen >= 2
  /\ \E r \in Producers : hp[r] = "send_lock" /\ attempt[r] > 0

\* The ids of the data messages among the frames w, in the order of w.
IsData(f) == f.kind = "data"
DataIds(w) == [i \in 1..Len(SelectSeq(w, IsData)) |-> SelectSeq(w, IsData)[i].id]

\* The messages accepted into the current queue generation: those written on
\* its link, the one the writer holds, and those still queued, in this order.
Accepted ==
  DataIds(wire) \o (IF curWrite = NoMsg THEN <<>> ELSE <<curWrite.id>>)
                \o [i \in 1..Len(chanq) |-> chanq[i].id]

\* C37: within one queue generation the messages are written in the order
\* they were enqueued: the sequence of written, held and queued messages only
\* ever grows at its end, by the message a send enqueues; a heartbeat written
\* in between changes nothing of it.
C37_WrittenInEnqueueOrder ==
  [][(gen' = gen /\ rxOpen /\ rxOpen') =>
       \/ Accepted' = Accepted
       \/ /\ Len(Accepted') = Len(Accepted) + 1
          /\ SubSeq(Accepted', 1, Len(Accepted)) = Accepted
          /\ Len(chanq') = Len(chanq) + 1]_vars

\* C37 witness: two data messages have been written on one link with a
\* heartbeat between them, the older message first.
C37_Witness ==
  \E i, j, k \in 1..Len(wire) :
    /\ i < j /\ j < k
    /\ wire[i].kind = "data" /\ wire[j].kind = "ping" /\ wire[k].kind = "data"
    /\ wire[i].id < wire[k].id

\* The heartbeats written on the current link.
IsPing(f) == f.kind = "ping"
PingsWritten == Len(SelectSeq(wire, IsPing))
\* A heartbeat is due or being written.
HeartbeatPending == tickDue \/ wpc = "write_ping"
\* The writer loop of an established, logged-in link is running.
WriterRunning == wpc \in {"top", "select", "write_data", "write_ping"}

BinaryRead == lastFrame.type = "binary"
GunzippedRead == BinaryRead /\ lastFrame.gz

\* C39 (as stated): a binary frame that decompresses is handled exactly as a
\* text frame with its content is on that venue, and one that does not
\* decompress is not parsed.
C39_BinaryHandledExactlyAsText ==
  /\ GunzippedRead =>
       lastFrame.outcome = TextOutcome(Venue(lastFrame.runner), lastFrame.content)
  /\ (BinaryRead /\ ~lastFrame.gz) => lastFrame.outcome.parses = 0

\* A step in which a Runner read a text or binary frame.
FrameReadStep == lastFrame' # lastFrame

\* C39 (amended): the content of a binary frame that decompresses is passed to
\* parse once and the result is dispatched once, which is how a text frame
\* with that content is handled unless it is KuCoin's JSON ping (answered as
\* text, parsed as binary); a binary frame that does not decompress is not
\* parsed and nothing is dispatched. Every frame moves the counters by what
\* was dispatched for it and by nothing else, and the session goes on.
C39_BinaryParsedAndDispatchedOnce ==
  /\ [](GunzippedRead =>
          /\ lastFrame.outcome = Handling(1, ParseMessage(lastFrame.content), FALSE)
          /\ ~(Venue(lastFrame.runner) = "kucoin" /\ lastFrame.content = "ping") =>
               lastFrame.outcome = TextOutcome(Venue(lastFrame.runner), lastFrame.content))
  /\ []((BinaryRead /\ ~lastFrame.gz) => lastFrame.outcome = Handling(0, "none", FALSE))
  /\ [][FrameReadStep =>
          LET o == lastFrame'.outcome
              market == IF o.parses = 1 /\ o.result = "Market" THEN 1 ELSE 0
              error == IF o.parses = 1 /\ o.result = "Error" THEN 1 ELSE 0
          IN /\ trades_received' = trades_received + market
             /\ trades_forwarded' = trades_forwarded + market
             /\ parse_errors' = parse_errors + error
             /\ UNCHANGED <<send_errors, dropped_messages, ws_connections_active>>
             /\ UNCHANGED <<runnerVars, adapterVars, poolVars, senderVars>>
             /\ rpc'[lastFrame'.runner] = "stream"]_vars

\* C39 witness: a binary frame was decompressed and its trade forwarded, after
\* a parse error had been counted for an earlier frame.
C39_Witness ==
  /\ GunzippedRead
  /\ lastFrame.outcome.result = "Market"
  /\ trades_forwarded > 0 /\ parse_errors > 0

\* A step in which the Bitfinex adapter labelled the trade frame of
\* connection c with the symbol chan_map holds for the frame's chanId.
LabelledStep(c) ==
  /\ akind = "bitfinex"
  /\ apc[c] = "decode" /\ aframe[c].kind = "trades"
  /\ Len(decoded') = Len(decoded) + 1

\* The symbols of connection c.
SymbolsOf(c) == {ConnPairs(c)[i] : i \in 1..Len(ConnPairs(c))}

\* C36: the Bitfinex adapter labels a trade frame only with a mapping that a
\* subscription acknowledgement on the same connection registered: the symbol
\* it takes from chan_map for the frame's chanId is a symbol of the
\* connection the frame arrived on, never one another connection registered.
C36_MappingFromSameConnectionOnly ==
  [][\A c \in Conns :
       LabelledStep(c) => Get(chan_map, aframe[c].chan) \subseteq SymbolsOf(c)]_vars

====
